---------------------------- MODULE Spec2Model ----------------------------
(***************************************************************************)
(* A model of pbparser: the declaration parser (parser.go) and the         *)
(* verifier (verifier.go).                                                 *)
(*                                                                         *)
(* Strings that the program takes apart (names, type references, package   *)
(* names, prefixes) are sequences of atoms in which "." is an atom of its  *)
(* own and every other atom is a dot-free run of characters, so that       *)
(* concatenation, strings.HasPrefix(s, pkg + ".") and                      *)
(* strings.ContainsRune(s, '.') are computed as the program computes them. *)
(* Keywords and module paths are words of one atom.  Strings the program   *)
(* only compares or stores whole (option values, syntax values) are plain. *)
(*                                                                         *)
(* The parser is modelled at the level of declarations: its input is a     *)
(* sequence of declaration tokens, each lexically well formed and on a     *)
(* line of its own, "}" closing a block and EOF ending the input.          *)
(***************************************************************************)
EXTENDS Integers, Sequences, FiniteSets, TLC

VARIABLES
    pf,             \* the ProtoFile being populated / verified
    prefix,         \* parser.prefix
    stack,          \* the active read* calls below parse(): one frame per open block
    perr,           \* the error returned by parse(), NoErr when none
    pstate,         \* "parsing" | "parsed" | "failed"
    ndecl,          \* declarations read so far (bounds the input)
    skipped,        \* what the last step's skipUntilNewline passed over on the line
    provider,       \* the ImportModuleProvider handed to Parse, NilProvider when nil
    vpc,            \* position inside verify()
    verr,           \* the error returned by verify(), NoErr when none
    m,              \* verify's map of package name to oracle
    packageNames,   \* verify's slice of dependency package names
    requested,      \* modules asked of the provider, in order
    ran,            \* the checks of verify() that have run, in order
    runes,          \* the input rune by rune, where the loops of the parser are followed
    pos,            \* runes consumed by the buffered reader
    eofReached,     \* parser.eofReached
    at              \* the loop of the parser that runs next, "idle" when not followed

vars == <<pf, prefix, stack, perr, pstate, ndecl, skipped, provider,
          vpc, verr, m, packageNames, requested, ran,
          runes, pos, eofReached, at>>

-----------------------------------------------------------------------------
(* Strings *)

dot == <<".">>

HasPrefix(s, pre) == Len(pre) <= Len(s) /\ SubSeq(s, 1, Len(pre)) = pre

ContainsDot(s) == \E i \in 1..Len(s) : s[i] = "."

W(a) == <<a>>

NoErr == [kind |-> "none"]

-----------------------------------------------------------------------------
(* datatype.go *)

ScalarNames == {"any", "bool", "bytes", "double", "float", "fixed32", "fixed64",
                "int32", "int64", "sfixed32", "sfixed64", "sint32", "sint64",
                "string", "uint32", "uint64"}

ScalarDataTypeCategory == "scalar"
MapDataTypeCategory == "map"
NamedDataTypeCategory == "named"

\* NewScalarDataType: the lookup succeeds exactly for the 16 scalar keywords
IsScalarWord(w) == Len(w) = 1 /\ w[1] \in ScalarNames

ScalarDataType(w) == [cat |-> ScalarDataTypeCategory, name |-> w]

NamedDataType(w) == [cat |-> NamedDataTypeCategory, name |-> w, supportsStreaming |-> FALSE]

MapDataType(k, v) == [cat |-> MapDataTypeCategory, keyType |-> k, valueType |-> v]

\* DataType.Name()
RECURSIVE Name(_)
Name(dt) ==
    IF dt.cat = MapDataTypeCategory
    THEN <<"map<">> \o Name(dt.keyType) \o <<", ">> \o Name(dt.valueType) \o <<">">>
    ELSE dt.name

fileCtx == "file"
msgCtx == "message"
oneOfCtx == "oneof"
enumCtx == "enum"
rpcCtx == "rpc"
extendCtx == "extend"
serviceCtx == "service"

permitsPackage(c) == c = fileCtx
permitsSyntax(c) == c = fileCtx
permitsImport(c) == c = fileCtx
permitsField(c) == c \in {msgCtx, oneOfCtx, extendCtx}
permitsOption(c) == c \in {fileCtx, msgCtx, oneOfCtx, enumCtx, serviceCtx, rpcCtx}
permitsExtensions(c) == c = msgCtx
permitsExtend(c) == c \in {fileCtx, msgCtx}
permitsReserved(c) == c = msgCtx
\* permitsRPC letting rpc through in a message as well
permitsRPC_InMessage(c) == c \in {serviceCtx, msgCtx}

permitsRPC(c) == c = serviceCtx
permitsOneOf(c) == c = msgCtx
permitsEnum(c) == c \in {fileCtx, msgCtx}
permitsMsg(c) == c \in {fileCtx, msgCtx}

-----------------------------------------------------------------------------
(* elements.go *)

ProtoFile == [PackageName |-> <<>>, Syntax |-> "", Dependencies |-> <<>>,
              PublicDependencies |-> <<>>, Options |-> <<>>, Enums |-> <<>>,
              Messages |-> <<>>, Services |-> <<>>, ExtendDeclarations |-> <<>>]

MessageElement(name, qname) ==
    [Name |-> name, QualifiedName |-> qname, Options |-> <<>>, Fields |-> <<>>,
     Enums |-> <<>>, Messages |-> <<>>, OneOfs |-> <<>>, ExtendDeclarations |-> <<>>,
     Extensions |-> <<>>, ReservedRanges |-> <<>>, ReservedNames |-> <<>>]

EnumElement(name, qname) ==
    [Name |-> name, QualifiedName |-> qname, Options |-> <<>>, EnumConstants |-> <<>>]

EnumConstantElement(name, tag) == [Name |-> name, Tag |-> tag, Options |-> <<>>]

OneOfElement(name) == [Name |-> name, Fields |-> <<>>, Options |-> <<>>]

ExtendElement(name, qname) == [Name |-> name, QualifiedName |-> qname, Fields |-> <<>>]

ServiceElement(name, qname) ==
    [Name |-> name, QualifiedName |-> qname, Options |-> <<>>, RPCs |-> <<>>]

RPCElement(name, req, resp) ==
    [Name |-> name, Options |-> <<>>, RequestType |-> req, ResponseType |-> resp]

FieldElement(label, type, name, tag) ==
    [Name |-> name, Label |-> label, Type |-> type, Tag |-> tag, Options |-> <<>>]

ExtensionsElement(start, end) == [Start |-> start, End |-> end]

ReservedRangeElement(start, end) == [Start |-> start, End |-> end]

OptionElement(name, value, paren) ==
    [Name |-> name, Value |-> value, IsParenthesized |-> paren]

-----------------------------------------------------------------------------
(* parser.go: words and declaration tokens of the input *)

optional == W("optional")
required == W("required")
repeated == W("repeated")
proto3 == "proto3"

Labels == {optional, required, repeated}

\* a type as written: a word, and for the word map the two types between < and >
TypeWord(w) == [w |-> w, args |-> <<>>]
TypeMap(k, v) == [w |-> W("map"), args |-> <<k, v>>]

TokPackage(name) == [word |-> W("package"), name |-> name]
TokSyntax(value) == [word |-> W("syntax"), value |-> value]
TokImport(public, path) == [word |-> W("import"), public |-> public, path |-> path]
TokOption(name, value, paren) ==
    [word |-> W("option"), name |-> name, value |-> value, paren |-> paren]
TokMessage(name) == [word |-> W("message"), name |-> name]
TokEnum(name) == [word |-> W("enum"), name |-> name]
TokOneOf(name) == [word |-> W("oneof"), name |-> name]
TokExtend(name) == [word |-> W("extend"), name |-> name]
TokService(name) == [word |-> W("service"), name |-> name]
\* rpc name (req) returns (resp) followed by ";" or, with body, by "{"
\* between the parentheses stand the words  [stream] type
TokRPC(name, reqStream, req, respStream, resp, body) ==
    [word |-> W("rpc"), name |-> name,
     req |-> IF reqStream THEN <<TypeWord(W("stream")), req>> ELSE <<req>>,
     resp |-> IF respStream THEN <<TypeWord(W("stream")), resp>> ELSE <<resp>>,
     body |-> body]
\* [label] type name = tag;  the first word read is the label, or the type when there is none
TokField(label, type, name, tag) ==
    [word |-> IF label = <<>> THEN type.w ELSE label, type |-> type,
     name |-> name, tag |-> tag]
\* a range as written: N ("single"), N to E ("to") or N to max ("max")
RangeText(start, form, end) == [start |-> start, form |-> form, end |-> end]
\* extensions range;
TokExtensions(range) == [word |-> W("extensions"), range |-> range]
\* reserved r1, r2, ..;  (digits first) or  reserved "n1", "n2", ..;
TokReserved(ranges, names) == [word |-> W("reserved"), ranges |-> ranges, names |-> names]
\* NAME = tag;
TokConst(name, tag) == [word |-> name, tag |-> tag]
TokClose == [word |-> W("}")]
TokEOF == [word |-> W("EOF")]

-----------------------------------------------------------------------------
(* parser.go: the parser.  A parser state st is a record                   *)
(* [pf, prefix, stack, err, done]; stack holds one frame                   *)
(* [ctxType, obj, previousPrefix] per block whose body is being read,      *)
(* innermost last.                                                         *)

Top(st) == st.stack[Len(st.stack)]

Outer(st) == SubSeq(st.stack, 1, Len(st.stack) - 1)

CtxOf(stk) == IF stk = <<>> THEN fileCtx ELSE stk[Len(stk)].ctxType

Ctx(st) == CtxOf(st.stack)

\* errline: the message followed by " on line: %v"
errline(text, args) ==
    [kind |-> "parse", text |-> text, args |-> args, loc |-> <<"line">>]

\* errcol: the message followed by " on line: %v, column: %v"
errcol(text, args) ==
    [kind |-> "parse", text |-> text, args |-> args, loc |-> <<"line", "column">>]

\* fmt.Errorf / errors.New / a strconv error handed on: the message alone
errplain(text, args) ==
    [kind |-> "parse", text |-> text, args |-> args, loc |-> <<>>]

unexpected(label, c) == errline("Unexpected '%v' in context: %v", <<label, W(c)>>)

throw(expected, actual) ==
    errcol("Expected %v, but found: %v", <<W(expected), actual>>)

\* whether the declaration is written  [label] type name = tag;  rather than  NAME = tag;
HasTypeAndName(tok) == "type" \in DOMAIN tok

Fail(st, e) == [st EXCEPT !.err = e]

Push(st, c, obj) ==
    [st EXCEPT !.stack = Append(@, [ctxType |-> c, obj |-> obj, previousPrefix |-> st.prefix])]

\* ctx.obj.(*T) of the innermost block, updated in place
SetTopObj(st, obj) == [st EXCEPT !.stack[Len(st.stack)].obj = obj]

RECURSIVE readDataTypeInternal(_)
readDataTypeInternal(t) ==
    IF t.w = W("map")
    THEN LET k == readDataTypeInternal(t.args[1])
             v == readDataTypeInternal(t.args[2])
         IN MapDataType(k, v)
    ELSE IF IsScalarWord(t.w) THEN ScalarDataType(t.w)
    ELSE NamedDataType(t.w)

readRequestResponseType(words) ==
    LET requiresStreaming == words[1].w = W("stream")
        \* after the word stream the next word is read as the type, empty when ")" follows
        name == IF ~requiresStreaming THEN words[1]
                ELSE IF Len(words) > 1 THEN words[2] ELSE TypeWord(<<>>)
        dt == readDataTypeInternal(name)
    IN IF dt.cat = NamedDataTypeCategory
       THEN [err |-> NoErr, dt |-> [dt EXCEPT !.supportsStreaming = requiresStreaming]]
       ELSE [err |-> errplain("Expected message type", <<>>), dt |-> NamedDataType(<<>>)]

readSyntax(st, tok) ==
    IF tok.value # "proto2" /\ tok.value # proto3
    THEN Fail(st, errline("'syntax' must be 'proto2' or 'proto3'. Found: %v", <<>>))
    ELSE [st EXCEPT !.pf.Syntax = tok.value]

readImport(st, tok) ==
    IF tok.public
    THEN [st EXCEPT !.pf.PublicDependencies = Append(@, tok.path)]
    ELSE [st EXCEPT !.pf.Dependencies = Append(@, tok.path)]

\* readName on a name written plain or in parentheses: the name, its enclosure
\* and the rune the reader is at afterwards; the ')' read after a name in
\* parentheses is put back by unread()
readName(name, paren) ==
    [name |-> name,
     enc |-> IF paren THEN "parenthesis" ELSE "unenclosed",
     next |-> IF paren THEN W(")") ELSE W("=")]

readOption(st, tok) ==
    LET n == readName(tok.name, tok.paren)
        oe == OptionElement(n.name, tok.value, n.enc = "parenthesis")
    IN IF n.next # W("=") THEN Fail(st, throw("=", n.next))
       ELSE IF Ctx(st) = fileCtx
       THEN [st EXCEPT !.pf.Options = Append(@, oe)]
       ELSE SetTopObj(st, [Top(st).obj EXCEPT !.Options = Append(@, oe)])

\* readMessage leaving the prefix as it is
readMessage_SamePrefix(st, tok) ==
    Push(st, msgCtx, MessageElement(tok.name, st.prefix \o tok.name))

readMessage(st, tok) ==
    LET me == MessageElement(tok.name, st.prefix \o tok.name)
        s1 == Push(st, msgCtx, me)
    IN [s1 EXCEPT !.prefix = st.prefix \o tok.name \o dot]

readEnum(st, tok) ==
    LET ee == EnumElement(tok.name, st.prefix \o tok.name)
    IN Push(st, enumCtx, ee)

readOneOf(st, tok) == Push(st, oneOfCtx, OneOfElement(tok.name))

readExtend(st, tok) ==
    LET qualifiedName == IF ~ContainsDot(tok.name) /\ st.prefix # <<>>
                         THEN st.prefix \o tok.name ELSE tok.name
    IN Push(st, extendCtx, ExtendElement(tok.name, qualifiedName))

readService(st, tok) ==
    LET se == ServiceElement(tok.name, st.prefix \o tok.name)
    IN Push(st, serviceCtx, se)

\* readRPC giving the response type the streaming flag of the request type
readRPC_SharedFlag(st, tok) ==
    LET req == readRequestResponseType(tok.req)
        resp == readRequestResponseType(tok.resp)
        rpc == RPCElement(tok.name, req.dt,
                          [resp.dt EXCEPT !.supportsStreaming = req.dt.supportsStreaming])
    IN IF req.err # NoErr THEN Fail(st, req.err)
       ELSE IF resp.err # NoErr THEN Fail(st, resp.err)
       ELSE IF tok.body THEN Push(st, rpcCtx, rpc)
       ELSE SetTopObj(st, [Top(st).obj EXCEPT !.RPCs = Append(@, rpc)])

readRPC(st, tok) ==
    LET req == readRequestResponseType(tok.req)
        resp == readRequestResponseType(tok.resp)
        rpc == RPCElement(tok.name, req.dt, resp.dt)
    IN IF req.err # NoErr THEN Fail(st, req.err)
       ELSE IF resp.err # NoErr THEN Fail(st, resp.err)
       ELSE IF tok.body THEN Push(st, rpcCtx, rpc)
       ELSE SetTopObj(st, [Top(st).obj EXCEPT !.RPCs = Append(@, rpc)])

readField(st, tok) ==
    LET label == tok.word
        c == Ctx(st)
        hasLabel == label \in Labels
        \* on  NAME = tag;  the word is read as the type and readName reads the empty word
        type == readDataTypeInternal(IF HasTypeAndName(tok) THEN tok.type ELSE TypeWord(label))
        fe == FieldElement(IF hasLabel THEN label ELSE <<>>, type,
                           IF HasTypeAndName(tok) THEN tok.name ELSE <<>>, tok.tag)
    IN IF label = optional /\ st.pf.Syntax = proto3
       THEN Fail(st, errline("Explicit 'optional' labels are disallowed in the proto3 syntax.", <<>>))
       ELSE IF label = required /\ st.pf.Syntax = proto3
       THEN Fail(st, errline("Required fields are not allowed in proto3", <<>>))
       ELSE IF label = required /\ c = extendCtx
       THEN Fail(st, errline("Message extensions cannot have required fields", <<>>))
       ELSE IF hasLabel /\ c = oneOfCtx
       THEN Fail(st, errline("Label '%v' is disallowed in oneoff field", <<label>>))
       ELSE IF type.cat = MapDataTypeCategory /\ hasLabel
       THEN Fail(st, errline("Label %v is not allowed on map fields", <<label>>))
       ELSE IF type.cat = MapDataTypeCategory /\ c = oneOfCtx
       THEN Fail(st, errline("Map fields are not allowed in oneofs", <<>>))
       ELSE IF type.cat = MapDataTypeCategory /\ c = extendCtx
       THEN Fail(st, errline("Map fields are not allowed to be extensions", <<>>))
       ELSE IF type.cat = MapDataTypeCategory
               /\ Name(type.keyType) \in {W("float"), W("double"), W("bytes")}
       THEN Fail(st, errline("Key in map fields cannot be float, double or bytes", <<>>))
       ELSE IF type.cat = MapDataTypeCategory /\ type.keyType.cat = NamedDataTypeCategory
       THEN Fail(st, errline("Key in map fields cannot be a named type", <<>>))
       ELSE SetTopObj(st, [Top(st).obj EXCEPT !.Fields = Append(@, fe)])

\* the End that "max" stands for in an extensions range
MaxExtensionEnd == 536870911

readExtensions(st, tok) ==
    LET r == tok.range
        end == IF r.form = "single" THEN r.start
               ELSE IF r.form = "max" THEN MaxExtensionEnd ELSE r.end
        xe == ExtensionsElement(r.start, end)
    IN IF st.pf.Syntax = proto3
       THEN Fail(st, errline("Extension ranges are not allowed in proto3", <<>>))
       ELSE SetTopObj(st, [Top(st).obj EXCEPT !.Extensions = Append(@, xe)])

\* readReservedRanges: each range is appended as it is read; "max" is no
\* integer; form "word" is an integer followed by a word other than "to"
RECURSIVE readReservedRanges(_, _)
readReservedRanges(st, ranges) ==
    IF ranges = <<>> THEN st
    ELSE LET r == Head(ranges)
             rr == ReservedRangeElement(r.start, IF r.form = "single" THEN r.start ELSE r.end)
         IN IF r.form = "max"
            THEN Fail(st, errplain("strconv.Atoi: parsing \"\": invalid syntax", <<>>))
            ELSE IF r.form = "word"
            THEN Fail(st, errline("Expected 'to', but found: %v", <<W("x")>>))
            ELSE readReservedRanges(
                     SetTopObj(st, [Top(st).obj EXCEPT !.ReservedRanges = Append(@, rr)]),
                     Tail(ranges))

readReservedNames(st, names) ==
    IF names = <<>> THEN Fail(st, throw("\"", W(";")))
    ELSE SetTopObj(st, [Top(st).obj EXCEPT !.ReservedNames = @ \o names])

readReserved(st, tok) ==
    IF tok.ranges # <<>> THEN readReservedRanges(st, tok.ranges)
    ELSE readReservedNames(st, tok.names)

readEnumConstant(st, tok) ==
    LET ec == EnumConstantElement(tok.word, tok.tag)
    IN IF HasTypeAndName(tok)
       THEN Fail(st, throw("=", IF tok.word \in Labels THEN tok.type.w
                                ELSE IF tok.word = W("map") THEN W("<") ELSE tok.name))
       ELSE SetTopObj(st, [Top(st).obj EXCEPT !.EnumConstants = Append(@, ec)])

\* the record a context of type c carries
ElementOf(c) ==
    CASE c = msgCtx -> MessageElement(<<>>, <<>>)
      [] c = enumCtx -> EnumElement(<<>>, <<>>)
      [] c = oneOfCtx -> OneOfElement(<<>>)
      [] c = extendCtx -> ExtendElement(<<>>, <<>>)
      [] c = serviceCtx -> ServiceElement(<<>>, <<>>)
      [] c = rpcCtx -> RPCElement(<<>>, <<>>, <<>>)

\* obj is a record of the type that contexts of type c carry
isA(obj, c) == DOMAIN obj = DOMAIN ElementOf(c)

\* the run-time panic of a type assertion that fails
panic == [kind |-> "panic", text |-> "interface conversion", args |-> <<>>, loc |-> <<>>]

\* ctx.obj.(*T), T being the record type of contexts of type c, then the rest of the reader
typeAssert(st, c, rest) ==
    IF st.stack # <<>> /\ isA(Top(st).obj, c) THEN rest ELSE Fail(st, panic)

readDeclaration(st, tok) ==
    LET label == tok.word
        c == Ctx(st)
    IN IF label = W("package")
       THEN IF ~permitsPackage(c) THEN Fail(st, unexpected(label, c))
            ELSE [st EXCEPT !.pf.PackageName = tok.name, !.prefix = tok.name \o dot]
       ELSE IF label = W("syntax")
       THEN IF ~permitsSyntax(c) THEN Fail(st, unexpected(label, c)) ELSE readSyntax(st, tok)
       ELSE IF label = W("import")
       THEN IF ~permitsImport(c) THEN Fail(st, unexpected(label, c)) ELSE readImport(st, tok)
       ELSE IF label = W("option")
       THEN IF ~permitsOption(c) THEN Fail(st, unexpected(label, c)) ELSE readOption(st, tok)
       ELSE IF label = W("message")
       THEN IF ~permitsMsg(c) THEN Fail(st, unexpected(label, c)) ELSE readMessage(st, tok)
       ELSE IF label = W("enum")
       THEN IF ~permitsEnum(c) THEN Fail(st, unexpected(label, c)) ELSE readEnum(st, tok)
       ELSE IF label = W("extend")
       THEN IF ~permitsExtend(c) THEN Fail(st, unexpected(label, c)) ELSE readExtend(st, tok)
       ELSE IF label = W("service")
       THEN readService(st, tok)
       ELSE IF label = W("rpc")
       THEN IF ~permitsRPC(c) THEN Fail(st, unexpected(label, c))
            ELSE typeAssert(st, serviceCtx, readRPC(st, tok))
       ELSE IF label = W("oneof")
       THEN IF ~permitsOneOf(c) THEN Fail(st, unexpected(label, c))
            ELSE typeAssert(st, msgCtx, readOneOf(st, tok))
       ELSE IF label = W("extensions")
       THEN IF ~permitsExtensions(c) THEN Fail(st, unexpected(label, c))
            ELSE typeAssert(st, msgCtx, readExtensions(st, tok))
       ELSE IF label = W("reserved")
       THEN IF ~permitsReserved(c) THEN Fail(st, unexpected(label, c))
            ELSE typeAssert(st, msgCtx, readReserved(st, tok))
       ELSE IF c \in {msgCtx, extendCtx, oneOfCtx}
       THEN readField(st, tok)
       ELSE IF c = enumCtx
       THEN typeAssert(st, enumCtx, readEnumConstant(st, tok))
       ELSE Fail(st, unexpected(label, c))

\* "}" read by the body loop of a block: the tail of the read* call that opened it
endBlock(st) ==
    LET top == Top(st)
        outer == Outer(st)
        inMsg == CtxOf(outer) = msgCtx
        popped == [st EXCEPT !.stack = outer]
        toParent(fld) == [popped EXCEPT !.stack[Len(outer)].obj[fld] = Append(@, top.obj)]
        toFile(fld) == [popped EXCEPT !.pf[fld] = Append(@, top.obj)]
    IN CASE top.ctxType = msgCtx ->
              [(IF inMsg THEN toParent("Messages") ELSE toFile("Messages"))
                   EXCEPT !.prefix = top.previousPrefix]
         [] top.ctxType = enumCtx -> IF inMsg THEN toParent("Enums") ELSE toFile("Enums")
         [] top.ctxType = oneOfCtx -> toParent("OneOfs")
         [] top.ctxType = extendCtx ->
              IF inMsg THEN toParent("ExtendDeclarations") ELSE toFile("ExtendDeclarations")
         [] top.ctxType = serviceCtx -> toFile("Services")
         [] top.ctxType = rpcCtx -> toParent("RPCs")

\* endOfInput ending the parse whatever is open
endOfInput_SilentEnd(st) == [st EXCEPT !.done = TRUE]

\* end of input met by parse() or by the body loop of a block
endOfInput(st) ==
    LET c == Ctx(st)
        eofIn(x) == errplain("Reached end of input in %v definition (missing '}')", <<W(x)>>)
    IN IF c = fileCtx THEN [st EXCEPT !.done = TRUE]
       ELSE IF c = rpcCtx THEN Fail(endBlock(st), eofIn(serviceCtx))
       ELSE Fail(st, eofIn(c))

\* one iteration of parse() / readDeclarationsInLoop
parseStep(st, tok) ==
    IF tok = TokEOF THEN endOfInput(st)
    ELSE IF tok = TokClose
    THEN IF st.stack = <<>> THEN st ELSE endBlock(st)
    ELSE readDeclaration(st, tok)

NewParser == [pf |-> ProtoFile, prefix |-> <<>>, stack |-> <<>>, err |-> NoErr,
              done |-> FALSE]

\* parse(r, pf) on the whole input toks
RECURSIVE parseFrom(_, _)
parseFrom(st, toks) ==
    IF st.err # NoErr \/ st.done THEN st
    ELSE IF toks = <<>> THEN endOfInput(st)
    ELSE parseFrom(parseStep(st, Head(toks)), Tail(toks))

parse(toks) == parseFrom(NewParser, toks)

-----------------------------------------------------------------------------
(* verifier.go *)

verror(text, args) == [kind |-> "verify", text |-> text, args |-> args]

\* the first error of a sequence of results, as a loop that returns on the first failure
FirstErr(errs) ==
    IF \E i \in 1..Len(errs) : errs[i] # NoErr
    THEN errs[CHOOSE i \in 1..Len(errs) :
                 errs[i] # NoErr /\ \A j \in 1..(i - 1) : errs[j] = NoErr]
    ELSE NoErr

Range(s) == {s[i] : i \in 1..Len(s)}

RECURSIVE Flatten(_)
Flatten(ss) == IF ss = <<>> THEN <<>> ELSE Head(ss) \o Flatten(Tail(ss))

\* validateSyntax accepting the empty syntax
validateSyntax_Always(f) == NoErr

validateSyntax(f) ==
    IF f.Syntax = "" THEN verror("No syntax specified in the proto file", <<>>) ELSE NoErr

RECURSIVE gatherNestedQNames(_)
gatherNestedQNames(parentmsg) ==
    LET sub == [i \in 1..Len(parentmsg.Messages) |-> gatherNestedQNames(parentmsg.Messages[i])]
    IN [msgmap |-> {parentmsg.Messages[i].QualifiedName : i \in 1..Len(parentmsg.Messages)}
                   \cup UNION {sub[i].msgmap : i \in 1..Len(sub)},
        enummap |-> {parentmsg.Enums[i].QualifiedName : i \in 1..Len(parentmsg.Enums)}
                    \cup UNION {sub[i].enummap : i \in 1..Len(sub)}]

makeQNameLookup(dpf) ==
    LET sub == [i \in 1..Len(dpf.Messages) |-> gatherNestedQNames(dpf.Messages[i])]
    IN [msgmap |-> {dpf.Messages[i].QualifiedName : i \in 1..Len(dpf.Messages)}
                   \cup UNION {sub[i].msgmap : i \in 1..Len(sub)},
        enummap |-> {dpf.Enums[i].QualifiedName : i \in 1..Len(dpf.Enums)}
                    \cup UNION {sub[i].enummap : i \in 1..Len(sub)}]

protoFileOracle(f) ==
    [pf |-> f, msgmap |-> makeQNameLookup(f).msgmap, enummap |-> makeQNameLookup(f).enummap]

\* m[pkg] = orcl, or the union of the name sets when pkg is already a key of mm
AddOracle(mm, pkg, orcl) ==
    IF pkg \in DOMAIN mm
    THEN [mm EXCEPT ![pkg].msgmap = @ \cup orcl.msgmap, ![pkg].enummap = @ \cup orcl.enummap]
    ELSE [k \in DOMAIN mm \cup {pkg} |-> IF k = pkg THEN orcl ELSE mm[k]]

NilProvider == [nil |-> TRUE]

\* impr.Provide(d): an error, a nil reader, or the content of the module
Provide(impr, d) == impr.modules[d]

\* acc is [m, requested, err]
RECURSIVE parseDependencies(_, _, _)
parseDependencies(impr, dependencies, acc) ==
    IF dependencies = <<>> \/ acc.err # NoErr THEN acc
    ELSE LET d == Head(dependencies)
             r == Provide(impr, d)
             asked == [acc EXCEPT !.requested = Append(@, d)]
             dpf == parse(r.content)
         IN IF r.kind = "error"
            THEN [asked EXCEPT !.err =
                     verror("ImportModuleReader is unable to provide content of dependency module %v. Reason:: %v",
                            <<d, r.reason>>)]
            ELSE IF r.kind = "nil"
            THEN [asked EXCEPT !.err =
                     verror("ImportModuleReader is unable to provide reader for dependency module %v", <<d>>)]
            ELSE IF dpf.err # NoErr
            THEN [asked EXCEPT !.err = verror("Unable to parse dependency %v. Reason:: %v",
                                              <<d, dpf.err.text>>)]
            ELSE IF validateSyntax(dpf.pf) # NoErr
            THEN [asked EXCEPT !.err = validateSyntax(dpf.pf)]
            ELSE parseDependencies(impr, Tail(dependencies),
                     [asked EXCEPT !.m = AddOracle(@, dpf.pf.PackageName, protoFileOracle(dpf.pf))])

merge(dest, src) ==
    [dest EXCEPT !.Dependencies = @ \o src.Dependencies,
                 !.PublicDependencies = @ \o src.PublicDependencies,
                 !.Options = @ \o src.Options,
                 !.Messages = @ \o src.Messages,
                 !.Enums = @ \o src.Enums,
                 !.ExtendDeclarations = @ \o src.ExtendDeclarations]

\* the orders in which ranging over the keys of a Go map can yield the set S
Orders(S) == {o \in [1..Cardinality(S) -> S] : \A i, j \in 1..Cardinality(S) : o[i] = o[j] => i = j}

getDependencyPackageNames(mainPkgName, mm) == Orders(DOMAIN mm \ {mainPkgName})

\* isDatatypeInSamePackage returning the last package name that matches
isDatatypeInSamePackage_LastMatch(datatypeName, pkgs) ==
    LET hit == {i \in 1..Len(pkgs) : HasPrefix(datatypeName, pkgs[i] \o dot)}
    IN IF hit = {} THEN [same |-> TRUE, pkg |-> <<>>]
       ELSE [same |-> FALSE, pkg |-> pkgs[CHOOSE i \in hit : \A j \in hit : i >= j]]

isDatatypeInSamePackage(datatypeName, pkgs) ==
    LET hit == {i \in 1..Len(pkgs) : HasPrefix(datatypeName, pkgs[i] \o dot)}
    IN IF hit = {} THEN [same |-> TRUE, pkg |-> <<>>]
       ELSE [same |-> FALSE, pkg |-> pkgs[CHOOSE i \in hit : \A j \in hit : i <= j]]

usesPackage(s, pkg, pkgs) ==
    /\ ContainsDot(s)
    /\ ~isDatatypeInSamePackage(s, pkgs).same
    /\ pkg = isDatatypeInSamePackage(s, pkgs).pkg

RECURSIVE checkImportedPackageUsage(_, _, _)
checkImportedPackageUsage(msgs, pkg, pkgs) ==
    \E i \in 1..Len(msgs) :
        \/ \E k \in 1..Len(msgs[i].Fields) :
              /\ msgs[i].Fields[k].Type.cat = NamedDataTypeCategory
              /\ usesPackage(Name(msgs[i].Fields[k].Type), pkg, pkgs)
        \/ checkImportedPackageUsage(msgs[i].Messages, pkg, pkgs)

areImportedPackagesUsed(f, pkgs) ==
    LET inuse(pkg) ==
            \/ \E i \in 1..Len(f.Services) : \E k \in 1..Len(f.Services[i].RPCs) :
                  \/ usesPackage(Name(f.Services[i].RPCs[k].RequestType), pkg, pkgs)
                  \/ usesPackage(Name(f.Services[i].RPCs[k].ResponseType), pkg, pkgs)
            \/ checkImportedPackageUsage(f.Messages, pkg, pkgs)
    IN FirstErr([i \in 1..Len(pkgs) |->
                    IF inuse(pkgs[i]) THEN NoErr
                    ELSE verror("Imported package: %v but not used", <<pkgs[i]>>)])

\* the fd records, in the order findFieldsToValidate appends them
RECURSIVE findFieldsToValidate(_)
findFieldsToValidate(msgs) ==
    IF msgs = <<>> THEN <<>>
    ELSE LET msg == Head(msgs)
             named == SelectSeq(msg.Fields, LAMBDA f : f.Type.cat = NamedDataTypeCategory)
             own == [k \in 1..Len(named) |->
                        [name |-> named[k].Name, category |-> Name(named[k].Type), msg |-> msg]]
         IN own \o findFieldsToValidate(msg.Messages) \o findFieldsToValidate(Tail(msgs))

RECURSIVE checkMsgName(_, _)
checkMsgName(s, msgs) ==
    \E i \in 1..Len(msgs) : msgs[i].Name = s \/ checkMsgName(s, msgs[i].Messages)

RECURSIVE checkEnumName(_, _, _)
checkEnumName(s, msgs, enums) ==
    \/ \E i \in 1..Len(enums) : enums[i].Name = s
    \/ \E i \in 1..Len(msgs) :
          Len(msgs[i].Messages) > 0 /\ checkEnumName(s, msgs[i].Messages, msgs[i].Enums)

checkMsgOrEnumName(s, msgs, enums) == checkMsgName(s, msgs) \/ checkEnumName(s, msgs, enums)

\* validateFieldDataTypes without the lookup in the oracle of a dependency package
validateFieldDataTypes_NoDependencyLookup(mainpkg, f, msgs, enums, mm, pkgs) ==
    LET where == isDatatypeInSamePackage(f.category, pkgs)
        term == IF ~HasPrefix(f.category, mainpkg \o dot)
                THEN mainpkg \o dot \o f.category ELSE f.category
        found ==
            IF ContainsDot(f.category)
            THEN where.same => (term \in mm[mainpkg].msgmap \/ term \in mm[mainpkg].enummap)
            ELSE \/ checkMsgOrEnumName(f.category, f.msg.Messages, f.msg.Enums)
                 \/ checkMsgOrEnumName(f.category, msgs, enums)
    IN IF found THEN NoErr
       ELSE verror("Datatype: '%v' referenced in field: '%v' is not defined", <<f.category, f.name>>)

validateFieldDataTypes(mainpkg, f, msgs, enums, mm, pkgs) ==
    LET where == isDatatypeInSamePackage(f.category, pkgs)
        term == IF ~HasPrefix(f.category, mainpkg \o dot)
                THEN mainpkg \o dot \o f.category ELSE f.category
        found ==
            IF ContainsDot(f.category)
            THEN IF where.same
                 THEN term \in mm[mainpkg].msgmap \/ term \in mm[mainpkg].enummap
                 ELSE f.category \in mm[where.pkg].msgmap \/ f.category \in mm[where.pkg].enummap
            ELSE \/ checkMsgOrEnumName(f.category, f.msg.Messages, f.msg.Enums)
                 \/ checkMsgOrEnumName(f.category, msgs, enums)
    IN IF found THEN NoErr
       ELSE verror("Datatype: '%v' referenced in field: '%v' is not defined", <<f.category, f.name>>)

validateRPCDataType(mainpkg, service, rpc, datatype, msgs, mm, pkgs) ==
    LET where == isDatatypeInSamePackage(Name(datatype), pkgs)
        found ==
            IF ContainsDot(Name(datatype))
            THEN IF where.same
                 THEN (mainpkg \o dot \o Name(datatype)) \in mm[mainpkg].msgmap
                 ELSE Name(datatype) \in mm[where.pkg].msgmap
            ELSE checkMsgName(Name(datatype), msgs)
    IN IF found THEN NoErr
       ELSE verror("Datatype: '%v' referenced in RPC: '%v' of Service: '%v' is not defined OR is not a message type",
                   <<Name(datatype), rpc, service>>)

\* the first element of names that repeats an earlier one, as the map-based loops find it
FirstRepeat(names) ==
    LET rep == {i \in 1..Len(names) : \E j \in 1..(i - 1) : names[j] = names[i]}
    IN IF rep = {} THEN 0 ELSE CHOOSE i \in rep : \A j \in rep : i <= j

\* validateUniqueMessageEnumNames without the loop over the nested messages
validateUniqueMessageEnumNames_TopOnly(ctxName, enums, msgs) ==
    LET names == [i \in 1..Len(enums) |-> enums[i].Name] \o [i \in 1..Len(msgs) |-> msgs[i].Name]
        r == FirstRepeat(names)
    IN IF r # 0 THEN verror("Duplicate name %v in %v", <<names[r], ctxName>>) ELSE NoErr

RECURSIVE validateUniqueMessageEnumNames(_, _, _)
validateUniqueMessageEnumNames(ctxName, enums, msgs) ==
    LET names == [i \in 1..Len(enums) |-> enums[i].Name] \o [i \in 1..Len(msgs) |-> msgs[i].Name]
        r == FirstRepeat(names)
    IN IF r # 0 THEN verror("Duplicate name %v in %v", <<names[r], ctxName>>)
       ELSE FirstErr([i \in 1..Len(msgs) |->
                validateUniqueMessageEnumNames(<<"message ">> \o msgs[i].Name,
                                               msgs[i].Enums, msgs[i].Messages)])

\* isAllowAlias finding the option in no enum
isAllowAlias_Never(en) == FALSE

isAllowAlias(en) ==
    \E i \in 1..Len(en.Options) :
        en.Options[i].Name = W("allow_alias") /\ en.Options[i].Value = "true"

validateEnumConstantTagAliases(enums) ==
    FirstErr([i \in 1..Len(enums) |->
        LET tags == [k \in 1..Len(enums[i].EnumConstants) |-> enums[i].EnumConstants[k].Tag]
            r == FirstRepeat(tags)
        IN IF r # 0 /\ ~isAllowAlias(enums[i])
           THEN verror("%v is reusing an enum value. If this is intended, set 'option allow_alias = true;' in the enum",
                       <<enums[i].EnumConstants[r].Name>>)
           ELSE NoErr])

RECURSIVE validateEnumConstantTagAliasesInMessage(_)
validateEnumConstantTagAliasesInMessage(msg) ==
    IF validateEnumConstantTagAliases(msg.Enums) # NoErr
    THEN validateEnumConstantTagAliases(msg.Enums)
    ELSE FirstErr([i \in 1..Len(msg.Messages) |->
             validateEnumConstantTagAliasesInMessage(msg.Messages[i])])

validateEnumConstants(ctxName, enums) ==
    LET names == Flatten([i \in 1..Len(enums) |->
                     [k \in 1..Len(enums[i].EnumConstants) |-> enums[i].EnumConstants[k].Name]])
        r == FirstRepeat(names)
    IN IF r # 0 THEN verror("Enum constant %v is already defined in %v", <<names[r], ctxName>>)
       ELSE NoErr

\* validateEnumConstantsInMessage without the loop over the nested messages
validateEnumConstantsInMessage_TopOnly(msg) ==
    validateEnumConstants(<<"message ">> \o msg.Name, msg.Enums)

RECURSIVE validateEnumConstantsInMessage(_)
validateEnumConstantsInMessage(msg) ==
    IF validateEnumConstants(<<"message ">> \o msg.Name, msg.Enums) # NoErr
    THEN validateEnumConstants(<<"message ">> \o msg.Name, msg.Enums)
    ELSE FirstErr([i \in 1..Len(msg.Messages) |-> validateEnumConstantsInMessage(msg.Messages[i])])

-----------------------------------------------------------------------------
(* Bounds *)

\* declarations in one input of the parser specification
MaxDecls == 4
\* blocks open at once in one input of the parser specification
MaxDepth == 2
\* depth of the chain of nested messages in the documents handed to verify
MaxNest == 3
\* largest enum constant tag in the documents handed to verify
MaxTag == 1

-----------------------------------------------------------------------------
(* verifier.go: verify(pf, p), one action per check *)

EmptyMap == [k \in {} |-> NoErr]

\* a check has run with result e: return e, or go on to the next check
Checked(name, e, next) ==
    /\ ran' = Append(ran, name)
    /\ verr' = e
    /\ vpc' = IF e = NoErr THEN next ELSE "done"

ScannerIdle == UNCHANGED <<runes, pos, eofReached, at>>

ParserIdle == UNCHANGED <<prefix, stack, perr, pstate, ndecl, skipped, provider>> /\ ScannerIdle

VerifySyntax ==
    /\ vpc = "syntax"
    /\ Checked("syntax", validateSyntax(pf), "provider")
    /\ UNCHANGED <<pf, m, packageNames, requested>>
    /\ ParserIdle

\* the test of the provider refusing a nil provider for every document
requireProvider_AnyDocument(f, p) ==
    IF p = NilProvider
    THEN verror("ImportModuleProvider is required to validate imports", <<>>)
    ELSE NoErr

\* the test of the provider in verify()
requireProvider(f, p) ==
    IF (Len(f.Dependencies) > 0 \/ Len(f.PublicDependencies) > 0) /\ p = NilProvider
    THEN verror("ImportModuleProvider is required to validate imports", <<>>)
    ELSE NoErr

VerifyProvider ==
    /\ vpc = "provider"
    /\ Checked("provider", requireProvider(pf, provider), "dependencies")
    /\ UNCHANGED <<pf, m, packageNames, requested>>
    /\ ParserIdle

VerifyDependencies ==
    /\ vpc = "dependencies"
    /\ LET acc == parseDependencies(provider, pf.Dependencies,
                                    [m |-> EmptyMap, requested |-> requested, err |-> NoErr])
       IN /\ m' = acc.m
          /\ requested' = acc.requested
          /\ Checked("dependencies", acc.err, "publicDependencies")
    /\ UNCHANGED <<pf, packageNames>>
    /\ ParserIdle

VerifyPublicDependencies ==
    /\ vpc = "publicDependencies"
    /\ LET acc == parseDependencies(provider, pf.PublicDependencies,
                                    [m |-> m, requested |-> requested, err |-> NoErr])
       IN /\ m' = acc.m
          /\ requested' = acc.requested
          /\ Checked("publicDependencies", acc.err, "oracle")
    /\ UNCHANGED <<pf, packageNames>>
    /\ ParserIdle

\* the oracle of the main package, the merge of a same-package import, the package names
VerifyMainOracle ==
    /\ vpc = "oracle"
    /\ m' = AddOracle(m, pf.PackageName, protoFileOracle(pf))
    /\ pf' = IF pf.PackageName \in DOMAIN m THEN merge(pf, m[pf.PackageName].pf) ELSE pf
    /\ packageNames' \in getDependencyPackageNames(pf.PackageName, m')
    /\ Checked("oracle", NoErr, "importsUsed")
    /\ UNCHANGED requested
    /\ ParserIdle

VerifyImportsUsed ==
    /\ vpc = "importsUsed"
    /\ Checked("importsUsed", areImportedPackagesUsed(pf, packageNames), "fields")
    /\ UNCHANGED <<pf, m, packageNames, requested>>
    /\ ParserIdle

VerifyFields ==
    /\ vpc = "fields"
    /\ LET fields == findFieldsToValidate(pf.Messages)
       IN Checked("fields",
                  FirstErr([i \in 1..Len(fields) |->
                      validateFieldDataTypes(pf.PackageName, fields[i], pf.Messages,
                                             pf.Enums, m, packageNames)]),
                  "rpcs")
    /\ UNCHANGED <<pf, m, packageNames, requested>>
    /\ ParserIdle

VerifyRPCs ==
    /\ vpc = "rpcs"
    /\ LET perRPC(sv, rpc) ==
               <<validateRPCDataType(pf.PackageName, sv.Name, rpc.Name, rpc.RequestType,
                                     pf.Messages, m, packageNames),
                 validateRPCDataType(pf.PackageName, sv.Name, rpc.Name, rpc.ResponseType,
                                     pf.Messages, m, packageNames)>>
           perService(sv) == Flatten([k \in 1..Len(sv.RPCs) |-> perRPC(sv, sv.RPCs[k])])
       IN Checked("rpcs",
                  FirstErr(Flatten([i \in 1..Len(pf.Services) |-> perService(pf.Services[i])])),
                  "uniqueNames")
    /\ UNCHANGED <<pf, m, packageNames, requested>>
    /\ ParserIdle

VerifyUniqueNames ==
    /\ vpc = "uniqueNames"
    /\ Checked("uniqueNames",
               validateUniqueMessageEnumNames(<<"package ">> \o pf.PackageName,
                                              pf.Enums, pf.Messages),
               "enumConstants")
    /\ UNCHANGED <<pf, m, packageNames, requested>>
    /\ ParserIdle

VerifyEnumConstants ==
    /\ vpc = "enumConstants"
    /\ Checked("enumConstants",
               FirstErr(<<validateEnumConstants(<<"package ">> \o pf.PackageName, pf.Enums)>>
                        \o [i \in 1..Len(pf.Messages) |->
                               validateEnumConstantsInMessage(pf.Messages[i])]),
               "tagAliases")
    /\ UNCHANGED <<pf, m, packageNames, requested>>
    /\ ParserIdle

VerifyTagAliases ==
    /\ vpc = "tagAliases"
    /\ Checked("tagAliases",
               FirstErr(<<validateEnumConstantTagAliases(pf.Enums)>>
                        \o [i \in 1..Len(pf.Messages) |->
                               validateEnumConstantTagAliasesInMessage(pf.Messages[i])]),
               "done")
    /\ UNCHANGED <<pf, m, packageNames, requested>>
    /\ ParserIdle

NextVerify ==
    \/ VerifySyntax
    \/ VerifyProvider
    \/ VerifyDependencies
    \/ VerifyPublicDependencies
    \/ VerifyMainOracle
    \/ VerifyImportsUsed
    \/ VerifyFields
    \/ VerifyRPCs
    \/ VerifyUniqueNames
    \/ VerifyEnumConstants
    \/ VerifyTagAliases

-----------------------------------------------------------------------------
(* The documents handed to verify: each is parse() of a text built here.   *)

pkgP == W("p")
pkgA == W("a")
pkgAB == <<"a", ".", "b">>

SyntaxTok(syn) == IF syn = "" THEN <<>> ELSE <<TokSyntax(syn)>>
PackageTok(pkg) == IF pkg = <<>> THEN <<>> ELSE <<TokPackage(pkg)>>
ImportToks(deps, pubdeps) ==
    [i \in 1..Len(deps) |-> TokImport(FALSE, deps[i])]
    \o [i \in 1..Len(pubdeps) |-> TokImport(TRUE, pubdeps[i])]

Header(syn, pkg, deps, pubdeps) == SyntaxTok(syn) \o PackageTok(pkg) \o ImportToks(deps, pubdeps)

Block(open, body) == <<open>> \o body \o <<TokClose>>

\* the modules the provider knows: content, a failure of Provide, or a nil reader
Modules ==
    (W("x") :> [kind |-> "content", content |->
                   Header("proto3", pkgA, <<>>, <<>>)
                   \o Block(TokMessage(W("A")), Block(TokMessage(W("AI")), <<>>))
                   \o Block(TokEnum(W("AE")), <<TokConst(W("V"), 0)>>)])
    @@ (W("y") :> [kind |-> "content", content |->
                   Header("proto3", pkgAB, <<>>, <<>>) \o Block(TokMessage(W("B")), <<>>)])
    @@ (W("z") :> [kind |-> "content", content |->
                   Header("proto3", pkgP, <<>>, <<>>)
                   \o Block(TokMessage(W("PX")), <<>>)
                   \o Block(TokEnum(W("PE")), <<TokConst(W("PV"), 0)>>)])
    @@ (W("w") :> [kind |-> "content", content |->
                   Header("proto2", pkgA, <<>>, <<>>) \o Block(TokMessage(W("A2")), <<>>)])
    @@ (W("e") :> [kind |-> "error", reason |-> "no such module"])
    @@ (W("n") :> [kind |-> "nil"])
    @@ (W("u") :> [kind |-> "content", content |->
                   Header("proto3", pkgA, <<>>, <<>>) \o <<TokMessage(W("A"))>>])
    @@ (W("s") :> [kind |-> "content", content |->
                   PackageTok(pkgA) \o Block(TokMessage(W("A")), <<>>)])
    @@ (W("v") :> [kind |-> "content", content |->
                   Header("proto3", pkgP, <<>>, <<>>)
                   \o Block(TokMessage(W("PY")), <<>>)
                   \o Block(TokEnum(W("PF")), <<TokConst(W("PW"), 0)>>)])

TheProvider == [nil |-> FALSE, modules |-> Modules]

ChainNames == <<W("K1"), W("K2"), W("K3"), W("K4"), W("K5")>>

Sel(cond, toks) == IF cond THEN toks ELSE <<>>

FieldOf(ref) == TokField(<<>>, TypeWord(ref), W("f"), 1)

(* Documents for type resolution and import usage: the chain K1 { K2 { .. } },   *)
(* K1 also holding enum E, a oneof and an extend block; message Q holding R and  *)
(* enum S; top-level enum T; a top-level extend block; a service.  A probe is a  *)
(* field of type ref at one place; extra is a second reference.                  *)
\* places of the probe: 0 nowhere, k in message Kk, then the four other blocks
PlaceOneOf == MaxNest + 1
PlaceExtend == MaxNest + 2
PlaceFileExtend == MaxNest + 3
PlaceQ == MaxNest + 4
ProbePlaces == 1..PlaceQ

Refs == {W("K2"), ChainNames[MaxNest], W("R"), W("E"), W("S"), W("T"), W("Q"), W("X"),
         <<"K1", ".", "K2">>, <<"K1", ".", "E">>, <<"p", ".", "K1">>,
         <<"p", ".", "K1", ".", "K2">>, <<"p", ".", "X">>,
         <<"a", ".", "A">>, <<"a", ".", "AE">>, <<"a", ".", "X">>, <<"a", ".", "A", ".", "AI">>,
         <<"a", ".", "b", ".", "B">>, <<"z", ".", "X">>, <<"PX">>, <<"a", ".", "A2">>}

NoProbe == [place |-> 0, ref |-> <<>>]

Probes == {NoProbe} \cup [place : ProbePlaces, ref : Refs]

Extras == {[kind |-> "none"],
           [kind |-> "field", ref |-> <<"a", ".", "A">>],
           [kind |-> "field", ref |-> <<"a", ".", "b", ".", "B">>],
           [kind |-> "rpc", req |-> W("K1"), resp |-> W("Q")],
           [kind |-> "rpc", req |-> <<"a", ".", "A">>, resp |-> W("K1")],
           [kind |-> "rpc", req |-> W("K1"), resp |-> W("T")]}

ImportChoices ==
    {<<d, pd>> \in
        {<< <<>>, <<>> >>, << <<W("x")>>, <<>> >>, << <<>>, <<W("x")>> >>,
         << <<W("x"), W("y")>>, <<>> >>, << <<W("y")>>, <<W("x")>> >>,
         << <<W("z")>>, <<>> >>, << <<W("x"), W("w")>>, <<>> >>} : TRUE}

At(probe, place) == Sel(probe.place = place, <<FieldOf(probe.ref)>>)

RECURSIVE RefChain(_, _)
RefChain(k, probe) ==
    Block(TokMessage(ChainNames[k]),
          At(probe, k)
          \o Sel(k < MaxNest, RefChain(k + 1, probe))
          \o Sel(k = 1, Block(TokEnum(W("E")), <<TokConst(W("A"), 0)>>)
                        \o Sel(probe.place = PlaceOneOf, Block(TokOneOf(W("u")), At(probe, PlaceOneOf)))
                        \o Sel(probe.place = PlaceExtend,
                               Block(TokExtend(W("Q")), At(probe, PlaceExtend)))))

RefText(imp, probe, extra) ==
    Header("proto3", pkgP, imp[1], imp[2])
    \o RefChain(1, probe)
    \o Block(TokMessage(W("Q")),
             At(probe, PlaceQ) \o Sel(extra.kind = "field", <<FieldOf(extra.ref)>>)
             \o Block(TokMessage(W("R")), <<>>)
             \o Block(TokEnum(W("S")), <<TokConst(W("B"), 0)>>))
    \o Block(TokEnum(W("T")), <<TokConst(W("C"), 0)>>)
    \o Sel(probe.place = PlaceFileExtend, Block(TokExtend(W("Q")), At(probe, PlaceFileExtend)))
    \o Sel(extra.kind = "rpc",
           Block(TokService(W("Svc")),
                 <<TokRPC(W("Call"), FALSE, TypeWord(extra.req), FALSE, TypeWord(extra.resp), FALSE)>>))

RefTexts == {RefText(imp, probe, extra) : imp \in ImportChoices, probe \in Probes, extra \in Extras}

(* Documents for the name checks: the chain K1 { K2 { .. } } and message Q, with *)
(* up to two more declarations (a message, or an enum with its constants) each   *)
(* placed at file level (0), in Ki (i) or in Q (MaxNest + 1).                    *)
ItemNames == {W("X"), W("Y")}

ConstNames == {W("A"), W("B")}

Consts == [name : ConstNames, tag : 0..MaxTag]

ConstLists == {<<c>> : c \in {c \in Consts : c.tag = 0}}
              \cup {<<[name |-> W("A"), tag |-> 0], c>> : c \in Consts}

Items == [kind : {"message"}, scope : 0..(MaxNest + 1), name : ItemNames]
         \cup [kind : {"enum"}, scope : 0..(MaxNest + 1), name : ItemNames,
               consts : ConstLists, alias : BOOLEAN]

\* two declarations are written in the order of their places
ItemLists == {<<>>} \cup {<<i>> : i \in Items}
             \cup {<<i, j>> : <<i, j>> \in {ij \in Items \X Items : ij[1].scope <= ij[2].scope}}

ItemToks(it) ==
    IF it.kind = "message" THEN Block(TokMessage(it.name), <<>>)
    ELSE Block(TokEnum(it.name),
               Sel(it.alias, <<TokOption(W("allow_alias"), "true", FALSE)>>)
               \o [k \in 1..Len(it.consts) |-> TokConst(it.consts[k].name, it.consts[k].tag)])

ItemsAt(items, scope) ==
    Flatten([k \in 1..Len(items) |-> Sel(items[k].scope = scope, ItemToks(items[k]))])

RECURSIVE NameChain(_, _)
NameChain(k, items) ==
    Block(TokMessage(ChainNames[k]),
          ItemsAt(items, k) \o Sel(k < MaxNest, NameChain(k + 1, items)))

NameText(items) ==
    Header("proto3", pkgP, <<>>, <<>>)
    \o ItemsAt(items, 0)
    \o NameChain(1, items)
    \o Block(TokMessage(W("Q")), ItemsAt(items, MaxNest + 1))

NameTexts == {NameText(items) : items \in ItemLists}

(* Documents for the order of the checks: every header, over a few bodies. *)
DepModules == {W("x"), W("e"), W("n"), W("u"), W("s")}

DepLists == {<<>>} \cup {<<a>> : a \in DepModules}
            \cup {<<a, b>> : a \in DepModules, b \in DepModules \ {W("e")}}

PubDepLists == {<<>>, <<W("x")>>, <<W("e")>>}

Bodies == {<<>>,
           Block(TokMessage(W("M")), <<FieldOf(W("X"))>>),
           Block(TokMessage(W("M")), <<FieldOf(<<"a", ".", "A">>)>>),
           Block(TokMessage(W("M")), <<>>) \o Block(TokEnum(W("M")), <<>>)}

OrderTexts == {Header(syn, pkg, deps, pubdeps) \o body :
                  syn \in {"", "proto3"}, pkg \in {<<>>, pkgP},
                  deps \in DepLists, pubdeps \in PubDepLists, body \in Bodies}

(* Documents for the rpc check: the document of RefText with a service whose *)
(* rpc names, as request and response type, a message or an enum of the      *)
(* document or of an import, undotted, dotted or prefixed with a package.     *)
RPCRefs == {W("K1"), W("K2"), W("T"), W("X"), W("PX"),
            <<"K1", ".", "K2">>, <<"K1", ".", "E">>, <<"p", ".", "K1">>, <<"p", ".", "T">>,
            <<"a", ".", "A">>, <<"a", ".", "AE">>, <<"a", ".", "A", ".", "AI">>}

RPCTexts == {RefText(imp, NoProbe, [kind |-> "rpc", req |-> req, resp |-> resp]) :
                imp \in ImportChoices, req \in RPCRefs, resp \in RPCRefs}

(* Documents for packages split across files: the document of RefText with   *)
(* two files of its own package, or of package a, imported in either order,   *)
(* and a field naming a declaration of one of the files.                      *)
SplitImports ==
    {<< <<W("z"), W("v")>>, <<>> >>, << <<W("v"), W("z")>>, <<>> >>, << <<W("z")>>, <<W("v")>> >>,
     << <<W("w"), W("x")>>, <<>> >>, << <<W("x")>>, <<W("w")>> >>}

SplitRefs == {W("PX"), W("PY"), W("PE"), W("PF"), <<"p", ".", "PX">>, <<"p", ".", "PY">>,
              <<"p", ".", "PF">>, <<"a", ".", "A">>, <<"a", ".", "A2">>, <<"a", ".", "AE">>}

SplitTexts == {RefText(imp, [place |-> place, ref |-> ref], [kind |-> "none"]) :
                  imp \in SplitImports, place \in {1, PlaceQ}, ref \in SplitRefs}

\* Parse(r, p) has parsed the main text of one of the inputs and is about to
\* call verify(&pf, p)
VerifyStart(inputs) ==
    \E input \in inputs :
        \E st \in {parse(input[1])} :
           /\ st.err = NoErr
           /\ pf = st.pf
           /\ prefix = st.prefix
           /\ stack = <<>>
           /\ perr = NoErr
           /\ pstate = "parsed"
           /\ ndecl = 0
           /\ skipped = <<>>
           /\ provider = input[2]
           /\ vpc = "syntax"
           /\ verr = NoErr
           /\ m = EmptyMap
           /\ packageNames = <<>>
           /\ requested = <<>>
           /\ ran = <<>>
           /\ runes = <<>>
           /\ pos = 0
           /\ eofReached = FALSE
           /\ at = "idle"

InitVerify ==
    VerifyStart((OrderTexts \X {TheProvider, NilProvider})
                \cup ((RefTexts \cup NameTexts \cup RPCTexts \cup SplitTexts) \X {TheProvider}))

SpecVerify == InitVerify /\ [][NextVerify]_vars

(* verify called a second time on the document it has accepted, with the same *)
(* provider: its locals start afresh, the document is the one the first call   *)
(* left behind.                                                                *)
VerifyAgain ==
    /\ vpc = "done" /\ verr = NoErr
    /\ "again" \notin Range(ran)
    /\ ran' = Append(ran, "again")
    /\ vpc' = "syntax"
    /\ m' = EmptyMap
    /\ packageNames' = <<>>
    /\ UNCHANGED <<pf, verr, requested>>
    /\ ParserIdle

NextReverify ==
    \/ NextVerify
    \/ VerifyAgain

(* Documents verified twice: those of the split packages, and documents that  *)
(* import packages a and a.b, or nothing, with one or two fields naming them.  *)
ReverifyTexts ==
    SplitTexts
    \cup {RefText(imp, [place |-> PlaceQ, ref |-> ref], extra) :
             imp \in {<< <<>>, <<>> >>, << <<W("x")>>, <<>> >>, << <<W("x"), W("y")>>, <<>> >>},
             ref \in {W("K1"), W("X"), <<"a", ".", "A">>, <<"a", ".", "b", ".", "B">>},
             extra \in {e \in Extras : e.kind # "rpc"}}

InitReverify == VerifyStart((ReverifyTexts \cup NameTexts) \X {TheProvider})

SpecReverify == InitReverify /\ [][NextReverify]_vars

-----------------------------------------------------------------------------
(* Parsing, one declaration at a time: each action is one iteration of the *)
(* loop of parse() or of readDeclarationsInLoop on the next declaration of *)
(* the input.                                                              *)

Current == [pf |-> pf, prefix |-> prefix, stack |-> stack, err |-> NoErr, done |-> FALSE]

VerifierIdle == UNCHANGED <<provider, verr, m, packageNames, requested, ran>>

\* the declarations toks read one after the other, the input going on after them
RECURSIVE parseToks(_, _)
parseToks(st, toks) ==
    IF st.err # NoErr \/ toks = <<>> THEN st
    ELSE parseToks(parseStep(st, Head(toks)), Tail(toks))

\* skipUntilNewline with rest written on the line after the ';': what is left
\* of the line for the parser to read
skipUntilNewline(rest) == <<>>

\* one iteration on the declaration tok, which is followed on its line by rest;
\* the readers of fields and enum constants end in readListOptionsOnALine
StepOnLine(tok, rest, gobbles) ==
    \E st \in {parseToks(parseStep(Current, tok),
                         IF gobbles THEN skipUntilNewline(rest) ELSE rest)} :
       /\ pf' = st.pf
       /\ prefix' = st.prefix
       /\ stack' = st.stack
       /\ perr' = st.err
       /\ pstate' = IF st.err # NoErr THEN "failed" ELSE IF st.done THEN "parsed" ELSE "parsing"
       /\ vpc' = IF st.err = NoErr /\ st.done THEN "syntax" ELSE vpc
       /\ skipped' = IF gobbles /\ st.err = NoErr THEN rest ELSE <<>>
       /\ VerifierIdle
       /\ ScannerIdle

\* one iteration on a declaration that has its line to itself
Step(tok) == StepOnLine(tok, <<>>, FALSE)

TypeNames == {W("M"), W("N")}

\* key and value types written in the map fields of the input
KeyTypes == {TypeWord(W("string")), TypeWord(W("float")), TypeWord(W("double")),
             TypeWord(W("bytes")), TypeWord(W("M"))}

ValueTypes == {TypeWord(W("int32")),
               TypeMap(TypeWord(W("float")), TypeWord(W("int32")))}

MapToks == {TokField(<<>>, TypeMap(k, v), W("m"), 3) : k \in KeyTypes, v \in ValueTypes}
           \cup {TokField(repeated, TypeMap(TypeWord(W("string")), TypeWord(W("int32"))),
                           W("m"), 3)}

FieldToks == {TokField(l, TypeWord(W("int32")), W("f"), 1) : l \in Labels \cup {<<>>}}
             \cup {TokField(<<>>, TypeWord(W("M")), W("g"), 2)}
             \cup MapToks

\* the ranges written in the extensions statements of the input:  5;  6 to 9;  7 to max;
RangeTexts == {RangeText(5, "single", 0), RangeText(6, "to", 9), RangeText(7, "max", 0)}

\* the rpc named StreamName[<<r, p>>] is written with stream before its request
\* type iff r and before its response type iff p
StreamName == [x \in BOOLEAN \X BOOLEAN |->
                  IF x[1] THEN (IF x[2] THEN W("Both") ELSE W("Up"))
                  ELSE (IF x[2] THEN W("Down") ELSE W("Call"))]

RPCToks == {TokRPC(StreamName[<<r, p>>], r, TypeWord(W("M")), p, TypeWord(W("N")), FALSE) :
               r \in BOOLEAN, p \in BOOLEAN}
           \cup {TokRPC(W("Call"), FALSE, TypeWord(W("M")), FALSE, TypeWord(W("N")), TRUE),
                 TokRPC(W("Call"), FALSE, TypeWord(W("int32")), FALSE, TypeWord(W("N")), FALSE),
                 TokRPC(W("Bare"), TRUE, TypeWord(<<>>), FALSE, TypeWord(W("N")), FALSE)}

\* each Read action is a further declaration of the input, which holds at most
\* MaxDecls declarations in blocks nested at most MaxDepth deep
ReadPackage ==
    /\ pstate = "parsing" /\ ndecl < MaxDecls
    /\ Step(TokPackage(pkgP))
    /\ ndecl' = ndecl + 1

ReadSyntax ==
    /\ pstate = "parsing" /\ ndecl < MaxDecls
    /\ \E v \in {"proto2", "proto3"} : Step(TokSyntax(v))
    /\ ndecl' = ndecl + 1

ReadImport ==
    /\ pstate = "parsing" /\ ndecl < MaxDecls
    /\ Step(TokImport(FALSE, W("x")))
    /\ ndecl' = ndecl + 1

\* option allow_alias = true;  option java_package = "a b";  option (custom) = true;
OptionToks ==
    {TokOption(W("allow_alias"), "true", FALSE),
     TokOption(W("java_package"), "a b", FALSE),
     TokOption(W("custom"), "true", TRUE)}

ReadOption ==
    /\ pstate = "parsing" /\ ndecl < MaxDecls
    /\ \E tok \in OptionToks : Step(tok)
    /\ ndecl' = ndecl + 1

ReadMessage ==
    /\ pstate = "parsing" /\ ndecl < MaxDecls /\ Len(stack) < MaxDepth
    /\ \E n \in TypeNames : Step(TokMessage(n))
    /\ ndecl' = ndecl + 1

ReadEnum ==
    /\ pstate = "parsing" /\ ndecl < MaxDecls /\ Len(stack) < MaxDepth
    /\ Step(TokEnum(W("E")))
    /\ ndecl' = ndecl + 1

ReadOneOf ==
    /\ pstate = "parsing" /\ ndecl < MaxDecls /\ Len(stack) < MaxDepth
    /\ Step(TokOneOf(W("u")))
    /\ ndecl' = ndecl + 1

ReadExtend ==
    /\ pstate = "parsing" /\ ndecl < MaxDecls /\ Len(stack) < MaxDepth
    /\ Step(TokExtend(W("M")))
    /\ ndecl' = ndecl + 1

ReadService ==
    /\ pstate = "parsing" /\ ndecl < MaxDecls /\ Len(stack) < MaxDepth
    /\ Step(TokService(W("S")))
    /\ ndecl' = ndecl + 1

ReadRPC ==
    /\ pstate = "parsing" /\ ndecl < MaxDecls
    /\ \E tok \in RPCToks : (tok.body => Len(stack) < MaxDepth) /\ Step(tok)
    /\ ndecl' = ndecl + 1

ReadExtensions ==
    /\ pstate = "parsing" /\ ndecl < MaxDecls
    /\ \E r \in RangeTexts : Step(TokExtensions(r))
    /\ ndecl' = ndecl + 1

\* reserved 5, 6 to 9;  reserved 5, 7 to max;  reserved 5, 8 x;  reserved "f", "g";  reserved ;
ReservedToks ==
    {TokReserved(<<RangeText(5, "single", 0), RangeText(6, "to", 9)>>, <<>>),
     TokReserved(<<RangeText(5, "single", 0), RangeText(7, "max", 0)>>, <<>>),
     TokReserved(<<RangeText(5, "single", 0), RangeText(8, "word", 0)>>, <<>>),
     TokReserved(<<>>, <<W("f"), W("g")>>),
     TokReserved(<<>>, <<>>)}

ReadReserved ==
    /\ pstate = "parsing" /\ ndecl < MaxDecls
    /\ \E tok \in ReservedToks : Step(tok)
    /\ ndecl' = ndecl + 1

\* what is written after a field or an enum constant on its line: nothing or
\* a comment, the '}' of the block, or a second declaration
PlainField == TokField(<<>>, TypeWord(W("int32")), W("f"), 1)

SecondField == TokField(<<>>, TypeWord(W("int32")), W("h"), 4)

FieldLines == (FieldToks \X {<<>>}) \cup ({PlainField} \X {<<TokClose>>, <<SecondField>>})

ConstLines == {TokConst(W("A"), 0)} \X {<<>>, <<TokClose>>, <<TokConst(W("B"), 1)>>}

\* in these contexts readDeclaration hands a word that is no keyword to
\* readField or readEnumConstant, which end in readListOptionsOnALine
ReadsToEndOfLine(stk) == CtxOf(stk) \in {msgCtx, extendCtx, oneOfCtx, enumCtx}

\* the declarations among the tokens toks
DeclsIn(toks) == Len(SelectSeq(toks, LAMBDA t : t # TokClose))

ReadField ==
    /\ pstate = "parsing"
    /\ \E line \in FieldLines :
          /\ ndecl + DeclsIn(line[2]) < MaxDecls
          /\ StepOnLine(line[1], line[2], ReadsToEndOfLine(stack))
          /\ ndecl' = ndecl + 1 + DeclsIn(line[2])

ReadEnumConstant ==
    /\ pstate = "parsing"
    /\ \E line \in ConstLines :
          /\ ndecl + DeclsIn(line[2]) < MaxDecls
          /\ StepOnLine(line[1], line[2], ReadsToEndOfLine(stack))
          /\ ndecl' = ndecl + 1 + DeclsIn(line[2])

CloseBlock ==
    /\ pstate = "parsing"
    /\ stack # <<>>
    /\ Step(TokClose)
    /\ UNCHANGED ndecl

EndOfInput ==
    /\ pstate = "parsing"
    /\ Step(TokEOF)
    /\ UNCHANGED ndecl

NextParse ==
    \/ ReadPackage
    \/ ReadSyntax
    \/ ReadImport
    \/ ReadOption
    \/ ReadMessage
    \/ ReadEnum
    \/ ReadOneOf
    \/ ReadExtend
    \/ ReadService
    \/ ReadRPC
    \/ ReadExtensions
    \/ ReadReserved
    \/ ReadField
    \/ ReadEnumConstant
    \/ CloseBlock
    \/ EndOfInput

\* Parse(r, p) has built the parser and the empty ProtoFile
InitParse ==
    /\ pf = ProtoFile
    /\ prefix = <<>>
    /\ stack = <<>>
    /\ perr = NoErr
    /\ pstate = "parsing"
    /\ ndecl = 0
    /\ skipped = <<>>
    /\ provider = TheProvider
    /\ vpc = "idle"
    /\ verr = NoErr
    /\ m = EmptyMap
    /\ packageNames = <<>>
    /\ requested = <<>>
    /\ ran = <<>>
    /\ runes = <<>>
    /\ pos = 0
    /\ eofReached = FALSE
    /\ at = "idle"

SpecParse == InitParse /\ [][NextParse]_vars

-----------------------------------------------------------------------------
(* The loops of the parser, rune by rune: parse(), readDeclarationsInLoop   *)
(* in a service body, the body loop of readRPC, readDocumentationIfFound    *)
(* and the comment readers, on inputs that hold no keyword.  Each action is *)
(* one iteration of one loop.  skipWhitespace, readWord and readUntil are   *)
(* operators: each of their iterations consumes a rune or stops.            *)

\* runes in one input of the scanner specification
MaxInput == 4

Runes == {"a", "\n", "/", "*", "}", "@", ";"}

\* var eof = rune(0), returned by read() when ReadRune fails
eof == "eof"

isWhitespace(c) == c \in {" ", "\t", "\r", "\n"}

\* letters, digits, '_', '-' and '.'
isValidCharInWord(c) == c \in {"a", "_", "-", "."}

\* the rune read() returns at position p
RuneAt(p) == IF p < Len(runes) THEN runes[p + 1] ELSE eof

\* the position after read() at p; a failed ReadRune consumes nothing and the
\* UnreadRune after it has no effect
Advance(p) == IF p < Len(runes) THEN p + 1 ELSE p

RECURSIVE skipWhitespace(_)
skipWhitespace(p) ==
    IF RuneAt(p) = eof THEN [pos |-> p, eofReached |-> TRUE]
    ELSE IF isWhitespace(RuneAt(p)) THEN skipWhitespace(p + 1)
    ELSE [pos |-> p, eofReached |-> FALSE]

RECURSIVE readWord(_)
\* the position after the word that starts at p
readWord(p) == IF isValidCharInWord(RuneAt(p)) THEN readWord(p + 1) ELSE p

RECURSIVE readUntil(_, _)
\* bufio ReadString(delimiter): io.EOF when the input ends first
readUntil(p, delimiter) ==
    IF RuneAt(p) = eof THEN [pos |-> p, eofReached |-> TRUE]
    ELSE IF RuneAt(p) = delimiter THEN [pos |-> p + 1, eofReached |-> FALSE]
    ELSE readUntil(p + 1, delimiter)

ScanIdle == VerifierIdle /\ UNCHANGED <<ndecl, skipped, vpc, runes>>

\* control returns to the loop of the innermost open block, or to parse()
Resume(stk, e) ==
    IF stk = <<>>
    THEN /\ at' = IF e THEN "end" ELSE "doc"
         /\ pstate' = IF e THEN "parsed" ELSE "parsing"
    ELSE /\ at' = IF CtxOf(stk) = rpcCtx THEN "rpcBody" ELSE "doc"
         /\ pstate' = "parsing"

ScanFail(e) ==
    /\ perr' = e
    /\ pstate' = "failed"
    /\ at' = "end"

\* "}" ends the innermost block: the rpc or service is appended to its parent
ScanEndBlock ==
    LET st == endBlock(Current)
    IN /\ pf' = st.pf
       /\ stack' = st.stack
       /\ prefix' = st.prefix

\* one iteration of the loop of readDocumentationIfFound
ScanDocumentationIfFound ==
    /\ at = "doc"
    /\ LET c == RuneAt(pos)
           sw == skipWhitespace(pos + 1)
       IN IF c = eof
          THEN eofReached' = TRUE /\ at' = "afterDoc" /\ UNCHANGED pos
          ELSE IF isWhitespace(c)
          THEN pos' = sw.pos /\ eofReached' = (eofReached \/ sw.eofReached) /\ at' = "doc"
          ELSE IF c = "/"
          THEN pos' = pos + 1 /\ at' = "documentation" /\ UNCHANGED eofReached
          ELSE at' = "afterDoc" /\ UNCHANGED <<pos, eofReached>>
    /\ UNCHANGED <<pf, prefix, stack, perr, pstate>>
    /\ ScanIdle

\* readDocumentation, up to the loop of the comment reader it calls
ScanDocumentation ==
    /\ at = "documentation"
    /\ LET c == RuneAt(pos)
           line == readUntil(pos + 1, "\n")
       IN IF c = "/"
          THEN /\ pos' = line.pos
               /\ eofReached' = (eofReached \/ line.eofReached)
               /\ at' = "single"
               /\ UNCHANGED <<perr, pstate>>
          ELSE IF c = "*"
          THEN /\ pos' = pos + 1
               /\ at' = "multi"
               /\ UNCHANGED <<eofReached, perr, pstate>>
          ELSE /\ pos' = Advance(pos)
               /\ ScanFail(errline("Expected '/' or '*', but found: %v", <<c>>))
               /\ UNCHANGED eofReached
    /\ UNCHANGED <<pf, prefix, stack>>
    /\ ScanIdle

\* one iteration of the loop of readMultiLineComment; the buffer the runes are
\* written to is not followed
ScanMultiLineComment ==
    /\ at = "multi"
    /\ LET c == RuneAt(pos)
           c2 == RuneAt(Advance(pos))
       IN IF c # "*"
          THEN pos' = Advance(pos) /\ at' = "multi"
          ELSE /\ pos' = Advance(Advance(pos))
               /\ at' = IF c2 = "/" THEN "afterDoc" ELSE "multi"
    /\ UNCHANGED <<pf, prefix, stack, perr, pstate, eofReached>>
    /\ ScanIdle

\* one iteration of the loop of readSingleLineComment
ScanSingleLineComment ==
    /\ at = "single"
    /\ LET sw == skipWhitespace(pos)
           c == RuneAt(sw.pos)
           c2 == RuneAt(Advance(sw.pos))
           line == readUntil(sw.pos + 2, "\n")
       IN IF c # "/"
          THEN pos' = sw.pos /\ eofReached' = (eofReached \/ sw.eofReached) /\ at' = "afterDoc"
          ELSE IF c2 # "/"
          THEN /\ pos' = sw.pos + 1
               /\ eofReached' = (eofReached \/ sw.eofReached)
               /\ at' = "afterDoc"
          ELSE /\ pos' = line.pos
               /\ eofReached' = (eofReached \/ sw.eofReached \/ line.eofReached)
               /\ at' = "single"
    /\ UNCHANGED <<pf, prefix, stack, perr, pstate>>
    /\ ScanIdle

\* the loop of parse(), of readDeclarationsInLoop or of readRPC between the
\* return of readDocumentationIfFound and the call of readDeclaration
ScanBeforeDeclaration ==
    /\ at = "afterDoc"
    /\ LET sw == skipWhitespace(pos)
           e == eofReached \/ sw.eofReached
           c == CtxOf(stack)
       IN IF c = fileCtx
          THEN IF eofReached
               THEN /\ Resume(<<>>, TRUE)
                    /\ UNCHANGED <<pf, prefix, stack, perr, pos, eofReached>>
               ELSE /\ pos' = sw.pos
                    /\ eofReached' = e
                    /\ IF e THEN Resume(<<>>, TRUE) ELSE at' = "decl" /\ UNCHANGED pstate
                    /\ UNCHANGED <<pf, prefix, stack, perr>>
          ELSE IF c = rpcCtx
          THEN /\ pos' = sw.pos
               /\ eofReached' = e
               /\ at' = "decl"
               /\ UNCHANGED <<pf, prefix, stack, perr, pstate>>
          ELSE IF e
          THEN /\ pos' = sw.pos
               /\ eofReached' = e
               /\ ScanFail(endOfInput(Current).err)
               /\ UNCHANGED <<pf, prefix, stack>>
          ELSE IF RuneAt(sw.pos) = "}"
          THEN /\ pos' = sw.pos + 1
               /\ ScanEndBlock
               /\ Resume(stack', e)
               /\ UNCHANGED <<perr, eofReached>>
          ELSE /\ pos' = sw.pos
               /\ at' = "decl"
               /\ UNCHANGED <<pf, prefix, stack, perr, pstate, eofReached>>
    /\ ScanIdle

\* readDeclaration on an input without keywords: ";" is skipped, a word is
\* unexpected in the file, service and rpc contexts, and on the empty word
\* nothing is read and nil is returned
ScanDeclaration ==
    /\ at = "decl"
    /\ LET c == RuneAt(pos)
           end == readWord(pos)
           label == SubSeq(runes, pos + 1, end)
       IN IF c = ";"
          THEN pos' = pos + 1 /\ Resume(stack, eofReached) /\ UNCHANGED perr
          ELSE IF label # <<>>
          THEN pos' = end /\ ScanFail(unexpected(label, CtxOf(stack)))
          ELSE Resume(stack, eofReached) /\ UNCHANGED <<pos, perr>>
    /\ UNCHANGED <<pf, prefix, stack, eofReached>>
    /\ ScanIdle

\* the head of one iteration of the body loop of readRPC
ScanRPCBody ==
    /\ at = "rpcBody"
    /\ IF RuneAt(pos) = "}"
       THEN pos' = pos + 1 /\ ScanEndBlock /\ Resume(stack', eofReached)
       ELSE IF eofReached
       THEN ScanEndBlock /\ Resume(stack', eofReached) /\ UNCHANGED pos
       ELSE at' = "doc" /\ UNCHANGED <<pf, prefix, stack, pstate, pos>>
    /\ UNCHANGED <<perr, eofReached>>
    /\ ScanIdle

NextScan ==
    \/ ScanDocumentationIfFound
    \/ ScanDocumentation
    \/ ScanMultiLineComment
    \/ ScanSingleLineComment
    \/ ScanBeforeDeclaration
    \/ ScanDeclaration
    \/ ScanRPCBody

Inputs == UNION {[1..n -> Runes] : n \in 0..MaxInput}

\* the parser at the top of parse(), in the body of  service S {  or in the
\* body of  service S { rpc Call(M) returns (N) {
OpenBlocks ==
    {<<>>, <<TokService(W("S"))>>,
     <<TokService(W("S")),
       TokRPC(W("Call"), FALSE, TypeWord(W("M")), FALSE, TypeWord(W("N")), TRUE)>>}

RECURSIVE readAll(_, _)
readAll(st, toks) ==
    IF toks = <<>> THEN st ELSE readAll(parseStep(st, Head(toks)), Tail(toks))

InitScan ==
    \E text \in Inputs, open \in OpenBlocks :
        LET st == readAll(NewParser, open)
        IN /\ pf = st.pf
           /\ prefix = st.prefix
           /\ stack = st.stack
           /\ perr = NoErr
           /\ pstate = "parsing"
           /\ ndecl = 0
           /\ skipped = <<>>
           /\ provider = TheProvider
           /\ vpc = "idle"
           /\ verr = NoErr
           /\ m = EmptyMap
           /\ packageNames = <<>>
           /\ requested = <<>>
           /\ ran = <<>>
           /\ runes = text
           /\ pos = 0
           /\ eofReached = FALSE
           /\ at = IF CtxOf(st.stack) = rpcCtx THEN "rpcBody" ELSE "doc"

\* the parser keeps running: every loop goes on to its next iteration
SpecScan == InitScan /\ [][NextScan]_vars /\ WF_vars(NextScan)

-----------------------------------------------------------------------------
(* What the properties below say about a document, stated on the document  *)
(* itself and not through the verifier's own lookups.                       *)

Succeeded == vpc = "done" /\ verr = NoErr

Failed == vpc = "done" /\ verr # NoErr

\* verify returned the error of the named check
FailedIn(check) == Failed /\ ran[Len(ran)] = check

RECURSIVE MessagesIn(_)
MessagesIn(msgs) ==
    UNION {{msgs[i]} \cup MessagesIn(msgs[i].Messages) : i \in 1..Len(msgs)}

AllMessages == MessagesIn(pf.Messages)

EnumsOf(f) == Range(f.Enums) \cup UNION {Range(msg.Enums) : msg \in MessagesIn(f.Messages)}

DeclaredNames(f) ==
    {msg.QualifiedName : msg \in MessagesIn(f.Messages)} \cup {en.QualifiedName : en \in EnumsOf(f)}

\* the files the document imports, as far as the provider has them
ImportedFiles ==
    IF provider = NilProvider THEN {}
    ELSE {parse(provider.modules[d].content).pf :
             d \in {d \in Range(pf.Dependencies) \cup Range(pf.PublicDependencies) :
                       provider.modules[d].kind = "content"}}

KnownNames == DeclaredNames(pf) \cup UNION {DeclaredNames(f) : f \in ImportedFiles}

\* ref is qn, or qn with leading name segments left out
Denotes(ref, qn) ==
    /\ Len(ref) <= Len(qn)
    /\ SubSeq(qn, Len(qn) - Len(ref) + 1, Len(qn)) = ref
    /\ Len(ref) < Len(qn) => qn[Len(qn) - Len(ref)] = "."

IsNamed(f) == f.Type.cat = NamedDataTypeCategory

\* a Named reference that names no message or enum of the document or of an import
Unresolved(f) == IsNamed(f) /\ \A qn \in KnownNames : ~Denotes(f.Type.name, qn)

MessageFields == UNION {Range(msg.Fields) : msg \in AllMessages}

FieldsOfOneOfs(oneofs) == UNION {Range(oneofs[k].Fields) : k \in 1..Len(oneofs)}

OneOfFields == UNION {FieldsOfOneOfs(msg.OneOfs) : msg \in AllMessages}

FieldsOfExtends(exts) == UNION {Range(exts[k].Fields) : k \in 1..Len(exts)}

ExtendFields ==
    FieldsOfExtends(pf.ExtendDeclarations)
    \cup UNION {FieldsOfExtends(msg.ExtendDeclarations) : msg \in AllMessages}

NotDefinedInField == "Datatype: '%v' referenced in field: '%v' is not defined"

\* C1: whenever a message field (at any depth) has a Named type that names no
\* message or enum of the document or of an imported file, verify fails, and it
\* fails no later than the field check; the error of the field check is the
\* "Datatype .. referenced in field .. is not defined" text carrying the type
\* name and the field name of one of the document's Named message fields.
C1_UnresolvedFieldFails ==
    /\ (vpc = "done" /\ \E f \in MessageFields : Unresolved(f))
          => (verr # NoErr /\ "rpcs" \notin Range(ran))
    /\ FailedIn("fields")
          => \E f \in MessageFields :
                /\ IsNamed(f)
                /\ verr = verror(NotDefinedInField, <<f.Type.name, f.Name>>)

\* C1 witness: with an import loaded and used, a field whose package-qualified
\* type names nothing is reported by the field check with its type and name
C1_Witness ==
    /\ FailedIn("fields")
    /\ Len(pf.Dependencies) > 0
    /\ \E f \in MessageFields :
          /\ Unresolved(f)
          /\ ContainsDot(f.Type.name)
          /\ verr.args = <<f.Type.name, f.Name>>

\* C2 as stated: verify never succeeds while a Named field of a message, of a
\* oneof or of an extend block is unresolved
C2_EveryFieldResolved ==
    Succeeded => \A f \in MessageFields \cup OneOfFields \cup ExtendFields : ~Unresolved(f)

NoSyntax == verror("No syntax specified in the proto file", <<>>)

\* C3: a document without syntax statement is either not yet verified or was
\* rejected with the syntax error by the first check alone: no module was asked
\* of the provider and no other check ran.
C3_NoSyntaxFailsFirst ==
    pf.Syntax = ""
       => \/ vpc = "syntax" /\ ran = <<>>
          \/ /\ vpc = "done"
             /\ verr = NoSyntax
             /\ requested = <<>>
             /\ ran = <<"syntax">>

\* C3 witness: the rejected document has imports to load and a field to resolve
C3_Witness ==
    /\ pf.Syntax = ""
    /\ vpc = "done"
    /\ verr = NoSyntax
    /\ Len(pf.Dependencies) > 0
    /\ \E f \in MessageFields : IsNamed(f)

\* C4 as stated: a document with a syntax statement and no package statement is
\* rejected with 'No package specified' before any import is requested
C4_NoPackageFails ==
    (vpc = "done" /\ pf.Syntax # "" /\ pf.PackageName = <<>>)
       => /\ verr # NoErr
          /\ verr.text = "No package specified"
          /\ requested = <<>>

\* the type names a declaration of package pkg
RefersTo(type, pkg) == type.cat = NamedDataTypeCategory /\ HasPrefix(type.name, pkg \o dot)

TypesOfRPCs(rpcs) == UNION {{rpcs[k].RequestType, rpcs[k].ResponseType} : k \in 1..Len(rpcs)}

RPCTypes == UNION {TypesOfRPCs(pf.Services[i].RPCs) : i \in 1..Len(pf.Services)}

\* C5 as stated, for a document with one imported package: when the import is
\* reported as unused, no message field, oneof field or RPC type refers to it
C5_UsedImportNotReported ==
    (FailedIn("importsUsed") /\ Len(packageNames) = 1)
       => /\ \A f \in MessageFields \cup OneOfFields : ~RefersTo(f.Type, packageNames[1])
          /\ \A t \in RPCTypes : ~RefersTo(t, packageNames[1])

\* no two of the enums and messages declared side by side share a name
SiblingsDistinct(enums, msgs) ==
    LET names == [i \in 1..Len(enums) |-> enums[i].Name] \o [i \in 1..Len(msgs) |-> msgs[i].Name]
    IN \A i, j \in 1..Len(names) : names[i] = names[j] => i = j

AllSiblingsDistinct ==
    /\ SiblingsDistinct(pf.Enums, pf.Messages)
    /\ \A msg \in AllMessages : SiblingsDistinct(msg.Enums, msg.Messages)

\* C6: in every accepted document sibling messages and enums have pairwise
\* distinct names, at file level and directly inside every message at any
\* depth, a message and an enum included; a collision makes verify fail, no
\* later than the name check, whose error is 'Duplicate name'; and the name
\* check fails only on a collision.
C6_SiblingNamesDistinct ==
    /\ Succeeded => AllSiblingsDistinct
    /\ (vpc = "done" /\ ~AllSiblingsDistinct)
          => (verr # NoErr /\ "enumConstants" \notin Range(ran))
    /\ FailedIn("uniqueNames")
          => (~AllSiblingsDistinct /\ verr.text = "Duplicate name %v in %v")

\* C6 witness: a message and an enum nested in the same message of the chain,
\* below file level, share a name and the name check reports it
C6_Witness ==
    /\ FailedIn("uniqueNames")
    /\ SiblingsDistinct(pf.Enums, pf.Messages)
    /\ \E msg \in AllMessages :
          /\ Len(msg.QualifiedName) > 3
          /\ \E i \in 1..Len(msg.Enums), j \in 1..Len(msg.Messages) :
                msg.Enums[i].Name = msg.Messages[j].Name

AllEnums == EnumsOf(pf)

SharesTag(en) ==
    \E i, j \in 1..Len(en.EnumConstants) :
        i # j /\ en.EnumConstants[i].Tag = en.EnumConstants[j].Tag

HasAllowAlias(en) ==
    \E o \in Range(en.Options) : o.Name = W("allow_alias") /\ o.Value = "true"

ReusingValue ==
    "%v is reusing an enum value. If this is intended, set 'option allow_alias = true;' in the enum"

\* C7: an enum, at file level or nested at any depth, whose options lack
\* allow_alias = true and two of whose constants share a tag makes verify fail;
\* the tag check fails only on such an enum, so enums with allow_alias = true
\* may repeat tags.
C7_TagAliases ==
    /\ (vpc = "done" /\ \E en \in AllEnums : SharesTag(en) /\ ~HasAllowAlias(en))
          => verr # NoErr
    /\ FailedIn("tagAliases")
          => /\ \E en \in AllEnums : SharesTag(en) /\ ~HasAllowAlias(en)
             /\ verr.text = ReusingValue

\* C7 witness: a document with a nested enum that repeats a tag under
\* allow_alias = true is accepted
C7_Witness ==
    /\ Succeeded
    /\ \E msg \in AllMessages : \E en \in Range(msg.Enums) : SharesTag(en) /\ HasAllowAlias(en)

ConstantNames(enums) ==
    Flatten([i \in 1..Len(enums) |->
                [k \in 1..Len(enums[i].EnumConstants) |-> enums[i].EnumConstants[k].Name]])

Distinct(seq) == \A i, j \in 1..Len(seq) : seq[i] = seq[j] => i = j

\* the enums declared in the subtree of a message, in some order
RECURSIVE SubtreeEnums(_)
SubtreeEnums(msg) ==
    msg.Enums \o Flatten([i \in 1..Len(msg.Messages) |-> SubtreeEnums(msg.Messages[i])])

ConstantScopesDistinct ==
    /\ Distinct(ConstantNames(pf.Enums))
    /\ \A msg \in AllMessages : Distinct(ConstantNames(msg.Enums))

-----------------------------------------------------------------------------
(* Properties of the parser *)

PackagePrefix == IF pf.PackageName = <<>> THEN <<>> ELSE pf.PackageName \o dot

\* the prefix in force in the body of the k-th open block, k = 0 being the file
InForce(k) == IF k = Len(stack) THEN prefix ELSE stack[k + 1].previousPrefix

OpenMessages == {stack[k].obj : k \in {i \in 1..Len(stack) : stack[i].ctxType = msgCtx}}

\* every message read so far, closed or still open, at any depth
ParsedMessages ==
    AllMessages \cup OpenMessages \cup UNION {MessagesIn(msg.Messages) : msg \in OpenMessages}

RECURSIVE EnumsUnder(_)
EnumsUnder(msg) ==
    Range(msg.Enums) \cup UNION {EnumsUnder(msg.Messages[i]) : i \in 1..Len(msg.Messages)}

\* C9: while parsing and after it, the prefix is '' before a package statement
\* and packageName + '.' after it, extended by name + '.' in the body of each
\* open message and by nothing else; a message, enum or service gets the prefix
\* in force where it is declared followed by its name; so a nested message or
\* enum is named by its parent's qualified name, a dot and its own name,
\* whether it precedes or follows another nested message, and a message's
\* qualified name and a dot start the qualified name of all that is nested in it.
C9_QualifiedNames ==
    /\ InForce(0) = PackagePrefix
    /\ \A k \in 1..Len(stack) :
          /\ stack[k].ctxType \in {msgCtx, enumCtx, serviceCtx}
                => stack[k].obj.QualifiedName = InForce(k - 1) \o stack[k].obj.Name
          /\ InForce(k) = IF stack[k].ctxType = msgCtx
                          THEN stack[k].obj.QualifiedName \o dot
                          ELSE InForce(k - 1)
    /\ \A x \in Range(pf.Messages) \cup Range(pf.Enums) :
          x.QualifiedName \in {x.Name, PackagePrefix \o x.Name}
    /\ \A msg \in ParsedMessages :
          /\ \A x \in Range(msg.Messages) \cup Range(msg.Enums) :
                x.QualifiedName = msg.QualifiedName \o dot \o x.Name
          /\ \A x \in MessagesIn(msg.Messages) \cup EnumsUnder(msg) :
                /\ HasPrefix(x.QualifiedName, msg.QualifiedName \o dot)
                /\ Len(x.QualifiedName) > Len(msg.QualifiedName) + 1

\* C9 witness: a parsed document with a package whose message holds a nested
\* message and an enum, the enum named under the message like the nested message
C9_Witness ==
    /\ pstate = "parsed"
    /\ pf.PackageName # <<>>
    /\ \E msg \in Range(pf.Messages) :
          /\ msg.QualifiedName = pf.PackageName \o dot \o msg.Name
          /\ Len(msg.Messages) > 0
          /\ Len(msg.Enums) > 0
          /\ msg.Enums[1].QualifiedName = msg.QualifiedName \o dot \o msg.Enums[1].Name

ParsedFields ==
    MessageFields \cup OneOfFields \cup ExtendFields

\* C10 as stated, first part: no successfully parsed proto3 document contains a
\* field labelled optional or required
C10_NoLabelsInProto3 ==
    (pstate = "parsed" /\ pf.Syntax = proto3)
       => \A f \in ParsedFields : f.Label \notin {optional, required}

RECURSIVE LegalKeys(_)
\* every map type in dt, the value types of maps included, has a key that is
\* none of float, double, bytes or a named type
LegalKeys(dt) ==
    dt.cat = MapDataTypeCategory
       => /\ dt.keyType.cat # NamedDataTypeCategory
          /\ Name(dt.keyType) \notin {W("float"), W("double"), W("bytes")}
          /\ LegalKeys(dt.keyType)
          /\ LegalKeys(dt.valueType)

\* C11 as stated: in every successfully parsed document every map type,
\* whether the type of a field or the value type of another map, has a key
\* that is none of float, double, bytes or a named type
C11_MapKeys ==
    pstate = "parsed" => \A f \in ParsedFields : LegalKeys(f.Type)

\* the part of C11 that holds: the map that is the type of a field has a legal key
C11_FieldMapKeys ==
    pstate = "parsed"
       => \A f \in ParsedFields :
             f.Type.cat = MapDataTypeCategory
                => /\ f.Type.keyType.cat # NamedDataTypeCategory
                   /\ Name(f.Type.keyType) \notin {W("float"), W("double"), W("bytes")}

\* the End that the range written with Start s in RangeTexts is to get
WrittenEnd(s) ==
    LET r == CHOOSE x \in RangeTexts : x.start = s
    IN CASE r.form = "single" -> s
         [] r.form = "to" -> r.end
         [] r.form = "max" -> 536870911

ParsedExtensions == UNION {Range(msg.Extensions) : msg \in ParsedMessages}

\* the part of C12 that holds: extensions S to max; yields Start = S and
\* End = 536870911, extensions S to E; yields End = E and extensions S; yields
\* End = S
C12_ExtensionEnds ==
    \A xe \in ParsedExtensions : xe.End = WrittenEnd(xe.Start)

\* C12 as stated: the three forms of range yield the Start and End above, and
\* in a document whose syntax is proto3 any extensions statement inside a
\* message is a parse error, so no parsed proto3 document holds an extension range
C12_Extensions ==
    /\ C12_ExtensionEnds
    /\ (pstate = "parsed" /\ pf.Syntax = proto3) => ParsedExtensions = {}

\* the three forms have been read into one message of a parsed document
C12_EndsWitness ==
    /\ pstate = "parsed"
    /\ \E msg \in Range(pf.Messages) :
          {xe.End : xe \in Range(msg.Extensions)} = {5, 9, MaxExtensionEnd}

\* every rpc read so far: of a closed service, of an open one, or itself open
ParsedRPCs ==
    UNION {Range(svc.RPCs) : svc \in Range(pf.Services)}
    \cup UNION {Range(stack[k].obj.RPCs) :
                   k \in {i \in 1..Len(stack) : stack[i].ctxType = serviceCtx}}
    \cup {stack[k].obj : k \in {i \in 1..Len(stack) : stack[i].ctxType = rpcCtx}}

\* C13: the streaming flags of an rpc are set independently: the request type
\* is streaming exactly when stream is written before it and the response type
\* exactly when stream is written before it, and the type names are those
\* written (rpc names tell how each rpc of the input was written, see StreamName)
C13_StreamingFlags ==
    \A rpc \in ParsedRPCs :
       \A r \in BOOLEAN, p \in BOOLEAN :
          rpc.Name = StreamName[<<r, p>>]
             => /\ rpc.RequestType.supportsStreaming = r
                /\ rpc.ResponseType.supportsStreaming = p
                /\ Name(rpc.RequestType) = W("M")
                /\ Name(rpc.ResponseType) = W("N")

\* C13 witness: a parsed service holds  rpc Down(M) returns (stream N);  with
\* request streaming false and response streaming true, and  rpc Up(stream M)
\* returns (N);  the other way round
C13_Witness ==
    /\ pstate = "parsed"
    /\ \E svc \in Range(pf.Services) :
          /\ \E rpc \in Range(svc.RPCs) :
                /\ rpc.Name = W("Down")
                /\ ~rpc.RequestType.supportsStreaming
                /\ rpc.ResponseType.supportsStreaming
          /\ \E rpc \in Range(svc.RPCs) :
                /\ rpc.Name = W("Up")
                /\ rpc.RequestType.supportsStreaming
                /\ ~rpc.ResponseType.supportsStreaming

\* the contexts in which a block of context c may be declared: message, enum,
\* extend in a file or a message; oneof in a message; rpc in a service; service
\* at top level
DeclaredIn(c) ==
    CASE c \in {msgCtx, enumCtx, extendCtx} -> {fileCtx, msgCtx}
      [] c = oneOfCtx -> {msgCtx}
      [] c = rpcCtx -> {serviceCtx}
      [] c = serviceCtx -> {fileCtx}

\* C15 as stated, for the keywords that open a block: no message, enum,
\* extend, oneof, rpc or service is accepted outside its permitted context, so
\* every open block stands in a context that permits it
C15_BlocksGated ==
    \A k \in 1..Len(stack) :
       CtxOf(SubSeq(stack, 1, k - 1)) \in DeclaredIn(stack[k].ctxType)

\* the part of C15 that holds, for the statements: package, syntax and import
\* take effect at file level only, extensions and reserved in a message only,
\* and a step that fails with 'Unexpected .. in context: ..' adds nothing to
\* the document
C15_StatementsGated ==
    [][/\ stack # <<>>
          => /\ pf'.PackageName = pf.PackageName
             /\ pf'.Syntax = pf.Syntax
             /\ pf'.Dependencies = pf.Dependencies
             /\ pf'.PublicDependencies = pf.PublicDependencies
       /\ (stack = <<>> \/ Top(Current).ctxType # msgCtx)
          => \A k \in 1..Len(stack) :
                (Len(stack') >= k /\ stack[k].ctxType = msgCtx /\ stack'[k].ctxType = msgCtx)
                   => /\ stack'[k].obj.Extensions = stack[k].obj.Extensions
                      /\ stack'[k].obj.ReservedRanges = stack[k].obj.ReservedRanges
                      /\ stack'[k].obj.ReservedNames = stack[k].obj.ReservedNames
       /\ (perr' # NoErr /\ perr'.text = "Unexpected '%v' in context: %v")
          => /\ pf' = pf
             /\ stack' = stack
             /\ perr'.args[2] = W(CtxOf(stack))]_vars

\* C16: when the input ends while a message, enum, oneof, extend or service
\* block is open, parsing returns 'Reached end of input in <context> definition
\* (missing '}')' for the innermost of them, and no document is returned: a
\* block left open is never accepted (the step that ends the parse without
\* reading a further declaration is the end of the input)
C16_UnterminatedBlock ==
    [][stack # <<>>
          => /\ pstate' # "parsed"
             /\ (ndecl' = ndecl /\ pstate' # "parsing")
                   => /\ pstate' = "failed"
                      /\ perr'.text = "Reached end of input in %v definition (missing '}')"
                      /\ \E k \in 1..Len(stack) :
                            /\ stack[k].ctxType \in {msgCtx, enumCtx, oneOfCtx, extendCtx, serviceCtx}
                            /\ perr'.args = <<W(stack[k].ctxType)>>
                            /\ \A j \in (k + 1)..Len(stack) : stack[j].ctxType = rpcCtx]_vars

\* C16 witness: the input has ended in an enum left open inside a message
C16_Witness ==
    /\ pstate = "failed"
    /\ Len(stack) = 2
    /\ stack[1].ctxType = msgCtx
    /\ stack[2].ctxType = enumCtx
    /\ perr.text = "Reached end of input in %v definition (missing '}')"
    /\ perr.args = <<W("enum")>>

\* C17 as stated: parsing terminates on every finite input: parse returns a
\* document or an error
C17_Terminates == <>(pstate # "parsing")

\* the part of C17 that holds: on inputs of words, whitespace, ";" and "/",
\* which hold no "/*" comment and no rune that starts neither a declaration
\* nor a comment, parsing terminates
C17_TerminatesOnWords ==
    (\A i \in 1..Len(runes) : runes[i] \notin {"}", "@", "*"}) => C17_Terminates

\* C20 as stated: every error returned by the parsing phase carries the line
\* and the column of the offending token in its message
C20_ErrorsCarryPosition ==
    pstate = "failed" => perr.loc = <<"line", "column">>

\* what holds of the position in parse errors: an 'Expected .., but found: ..'
\* error carries line and column, an error of end of input and 'Expected
\* message type' carry neither, every other error of the model carries the line
C20_PositionByError ==
    pstate = "failed"
       => perr.loc = CASE perr.text = "Expected %v, but found: %v" -> <<"line", "column">>
                       [] perr.text \in {"Reached end of input in %v definition (missing '}')",
                                         "Expected message type",
                                         "strconv.Atoi: parsing \"\": invalid syntax"} -> <<>>
                       [] OTHER -> <<"line">>

-----------------------------------------------------------------------------
(* Properties of the verifier's rpc check *)

\* ref names a message when resolved as a field type is at package scope: with
\* the prefix of an imported package, in that package's oracle; otherwise
\* dotted, in the main oracle, the main package's name put before it unless it
\* is there already; undotted, among the document's messages
NamesMessageAsFieldType(ref) ==
    LET foreign == {i \in 1..Len(packageNames) : HasPrefix(ref, packageNames[i] \o dot)}
        pkg == packageNames[CHOOSE i \in foreign : \A j \in foreign : i <= j]
        own == pf.PackageName
    IN IF ContainsDot(ref)
       THEN IF foreign # {} THEN ref \in m[pkg].msgmap
            ELSE IF HasPrefix(ref, own \o dot) THEN ref \in m[own].msgmap
            ELSE (own \o dot \o ref) \in m[own].msgmap
       ELSE \E msg \in AllMessages : msg.Name = ref

RPCsWithTypes ==
    UNION {UNION {{[service |-> pf.Services[i].Name, rpc |-> pf.Services[i].RPCs[k].Name,
                    type |-> Name(t)] :
                      t \in {pf.Services[i].RPCs[k].RequestType,
                              pf.Services[i].RPCs[k].ResponseType}} :
                  k \in 1..Len(pf.Services[i].RPCs)} : i \in 1..Len(pf.Services)}

\* C14 as stated: the rpc check accepts a request or response type exactly
\* when the reference, resolved by the rules used for field types at package
\* scope (a reference already prefixed with the main package's name included),
\* names a message; a rejection names the datatype, the rpc and the service
C14_RPCTypesLikeFieldTypes ==
    "rpcs" \in Range(ran)
       => /\ FailedIn("rpcs") <=> \E x \in RPCsWithTypes : ~NamesMessageAsFieldType(x.type)
          /\ FailedIn("rpcs")
                => \E x \in RPCsWithTypes :
                      /\ ~NamesMessageAsFieldType(x.type)
                      /\ verr.args = <<x.type, x.rpc, x.service>>

-----------------------------------------------------------------------------
(* Properties of the loading of imports *)

HasImports == pf.Dependencies # <<>> \/ pf.PublicDependencies # <<>>

\* C18: with a nil provider, a document that declares an import (plain or
\* public) makes verify fail at the test of the provider, right after the
\* syntax check, with 'ImportModuleProvider is required to validate imports',
\* and nothing runs after it; a document without imports passes the test, and
\* the nil provider is never asked for a module
C18_NilProvider ==
    provider = NilProvider
       => /\ requested = <<>>
          /\ "provider" \in Range(ran)
                => /\ ran = <<"syntax", "provider">> \/ ~HasImports
                   /\ HasImports
                         => /\ FailedIn("provider")
                            /\ verr.text = "ImportModuleProvider is required to validate imports"
                   /\ ~HasImports => ~FailedIn("provider")
          /\ HasImports => ~Succeeded

\* C18 witness: verify has refused a document with a public import only for
\* its nil provider
C18_Witness ==
    /\ provider = NilProvider
    /\ pf.Dependencies = <<>>
    /\ pf.PublicDependencies # <<>>
    /\ FailedIn("provider")

\* C18 witness of the other case: with a nil provider verify has accepted a
\* document without imports
C18_WitnessNoImports ==
    /\ provider = NilProvider
    /\ ~HasImports
    /\ Succeeded

Imports == pf.Dependencies \o pf.PublicDependencies

IsPrefix(s, t) == Len(s) <= Len(t) /\ SubSeq(t, 1, Len(s)) = s

\* the provider has no content for module d, or the content does not parse or
\* has no syntax
Unloadable(d) ==
    LET r == Modules[d]
    IN \/ r.kind \in {"error", "nil"}
       \/ parse(r.content).err # NoErr
       \/ parse(r.content).pf.Syntax = ""

ImportsLoaded == "publicDependencies" \in Range(ran) \/ FailedIn("dependencies")

FailedLoading == FailedIn("dependencies") \/ FailedIn("publicDependencies")

\* the part of C19 that holds: imports are requested in declaration order,
\* plain before public, up to and including the first that cannot be loaded;
\* loading fails exactly when there is one, and then no later import is
\* requested and no check runs after it
C19_FailFast ==
    /\ IsPrefix(requested, Imports)
    /\ \A i \in 1..(Len(requested) - 1) : ~Unloadable(requested[i])
    /\ ImportsLoaded
          => /\ FailedLoading <=> \E i \in 1..Len(Imports) : Unloadable(Imports[i])
             /\ FailedLoading => Unloadable(requested[Len(requested)])
             /\ ~FailedLoading => requested = Imports

\* C19 as stated: loading is fail-fast as above, and the error that verify
\* returns identifies the module that could not be loaded, with the provider's
\* reason when Provide returned an error
C19_ImportLoading ==
    /\ C19_FailFast
    /\ FailedLoading
          => /\ Len(verr.args) >= 1
             /\ verr.args[1] = requested[Len(requested)]
             /\ Modules[requested[Len(requested)]].kind = "error"
                   => verr.args[2] = Modules[requested[Len(requested)]].reason

\* the second import could not be loaded after the first was, and verify has
\* stopped there
C19_FailFastWitness ==
    /\ FailedLoading
    /\ Len(requested) = 2
    /\ Len(Imports) > 2

-----------------------------------------------------------------------------
(* The order of the checks of verify *)

\* the checks in the order the steps of the specification are numbered
ClaimedOrder ==
    <<"syntax", "package", "provider", "dependencies", "publicDependencies", "fields", "rpcs",
      "uniqueNames", "enumConstants", "tagAliases", "importsUsed">>

\* the steps of verify() in the order of its statements
VerifyOrder ==
    <<"syntax", "provider", "dependencies", "publicDependencies", "oracle", "importsUsed",
      "fields", "rpcs", "uniqueNames", "enumConstants", "tagAliases">>

\* the checks that ran; building the main oracle is no check
ChecksRun == SelectSeq(ran, LAMBDA c : c # "oracle")

\* an import was loaded whose package no field and no rpc type refers to
HasUnusedImport ==
    \E f \in ImportedFiles :
        /\ f.PackageName # pf.PackageName
        /\ \A fld \in MessageFields \cup OneOfFields : ~RefersTo(fld.Type, f.PackageName)
        /\ \A t \in RPCTypes : ~RefersTo(t, f.PackageName)

\* C21 as stated: the checks run in the order syntax, package, provider, import
\* loading, field types, rpc types, name uniqueness, enum constant names, enum
\* tag aliases, unused imports; and a document with an unresolved field type
\* and an unused import, once verify has come to its fields, is reported with
\* the error of the field check
C21_ClaimedOrder ==
    /\ IsPrefix(ChecksRun, ClaimedOrder)
    /\ (/\ vpc = "done"
        /\ "oracle" \in Range(ran)
        /\ HasUnusedImport
        /\ \E f \in MessageFields : Unresolved(f))
          => FailedIn("fields")

\* what holds of the order: the steps run in the order of the statements of
\* verify(), the first failing check ends verify with its error and nothing
\* runs after it, and verify accepts only after every check has run
C21_FailFast ==
    /\ IsPrefix(ran, VerifyOrder)
    /\ verr # NoErr => vpc = "done"
    /\ Succeeded => ran = VerifyOrder
    /\ (vpc = "done" /\ ran # VerifyOrder) => verr # NoErr

\* the unused import is reported although a field type is unresolved too, and
\* the field check never ran
C21_UnusedImportFirst ==
    /\ FailedIn("importsUsed")
    /\ "fields" \notin Range(ran)
    /\ \E f \in MessageFields : Unresolved(f)

-----------------------------------------------------------------------------
(* Undotted field types *)

NamesOf(msgs, enums) ==
    {msgs[i].Name : i \in 1..Len(msgs)} \cup {enums[i].Name : i \in 1..Len(enums)}

\* the undotted name is declared directly in msg or at the top level of the document
InScope(name, msg) ==
    name \in NamesOf(msg.Messages, msg.Enums) \cup NamesOf(pf.Messages, pf.Enums)

\* the Named fields of msg whose type is written without a dot
UndottedFields(msg) ==
    {f \in Range(msg.Fields) : IsNamed(f) /\ ~ContainsDot(f.Type.name)}

\* C22 as stated: an undotted field type resolves exactly when it names a
\* message or enum declared directly in the field's enclosing message or at
\* the top level: an accepted document has no undotted field type out of that
\* scope, and the field check reports no undotted type in that scope
C22_UndottedScope ==
    /\ Succeeded => \A msg \in AllMessages : \A f \in UndottedFields(msg) : InScope(f.Type.name, msg)
    /\ FailedIn("fields")
          => \A msg \in AllMessages : \A f \in UndottedFields(msg) :
                verr.args = <<f.Type.name, f.Name>> => ~InScope(f.Type.name, msg)

\* what holds of undotted types: a type in the scope of the claim is never
\* reported by the field check, and every undotted field type of an accepted
\* document is the name of a message or enum declared somewhere in it
C22_UndottedDeclared ==
    /\ FailedIn("fields")
          => \A msg \in AllMessages : \A f \in UndottedFields(msg) :
                verr.args = <<f.Type.name, f.Name>> => ~InScope(f.Type.name, msg)
    /\ Succeeded
          => \A msg \in AllMessages : \A f \in UndottedFields(msg) :
                \E qn \in DeclaredNames(pf) : Denotes(f.Type.name, qn)

\* a field of message Q whose type is declared only inside another message is accepted
C22_OtherMessageResolves ==
    /\ Succeeded
    /\ \E msg \in AllMessages : \E f \in UndottedFields(msg) :
          /\ ~InScope(f.Type.name, msg)
          /\ \E other \in AllMessages :
                other # msg /\ f.Type.name \in NamesOf(other.Messages, other.Enums)

\* an undotted type out of scope and declared nowhere is reported
C22_UndeclaredReported ==
    /\ FailedIn("fields")
    /\ \E msg \in AllMessages : \E f \in UndottedFields(msg) :
          verr.args = <<f.Type.name, f.Name>> /\ ~InScope(f.Type.name, msg)

-----------------------------------------------------------------------------
(* Dotted field types *)

\* the qualified names of the messages and enums, at any depth, of the files of package pkg
OracleOf(pkg) ==
    UNION {DeclaredNames(f) : f \in {g \in ImportedFiles \cup {pf} : g.PackageName = pkg}}

ImportedPackages == {f.PackageName : f \in ImportedFiles} \ {pf.PackageName}

\* the Named fields of the messages whose type is written with a dot
DottedFields == {f \in MessageFields : IsNamed(f) /\ ContainsDot(f.Type.name)}

\* the imported packages whose name followed by '.' starts the reference
Matching(ref) == {pkg \in ImportedPackages : HasPrefix(ref, pkg \o dot)}

\* the rule of the claim: the oracle of an imported package the reference
\* starts with, else mainPackage + '.' + reference in the main oracle
ResolvesAsStated(ref) ==
    IF Matching(ref) # {}
    THEN \E pkg \in Matching(ref) : ref \in OracleOf(pkg)
    ELSE (pf.PackageName \o dot \o ref) \in OracleOf(pf.PackageName)

\* C23 as stated: a dotted field type that starts with the name of an imported
\* package and '.' resolves exactly when it is in the oracle of that package;
\* any other dotted type resolves exactly when mainPackage + '.' + reference is
\* in the main oracle
C23_DottedAsStated ==
    /\ Succeeded => \A f \in DottedFields : ResolvesAsStated(f.Type.name)
    /\ FailedIn("fields")
          => \A f \in DottedFields :
                verr.args = <<f.Type.name, f.Name>> => ~ResolvesAsStated(f.Type.name)

\* the first of the enumerated package names that starts the reference
FirstMatch(ref) ==
    LET hit == {i \in 1..Len(packageNames) : HasPrefix(ref, packageNames[i] \o dot)}
    IN packageNames[CHOOSE i \in hit : \A j \in hit : i <= j]

\* the rule with the main package's own name allowed as prefix
ResolvesDotted(ref) ==
    IF Matching(ref) # {} THEN ref \in OracleOf(FirstMatch(ref))
    ELSE IF HasPrefix(ref, pf.PackageName \o dot) THEN ref \in OracleOf(pf.PackageName)
    ELSE (pf.PackageName \o dot \o ref) \in OracleOf(pf.PackageName)

\* C23 amended: a dotted field type that starts with the name of an imported
\* package and '.' resolves exactly when it is in the oracle of the first such
\* package in the enumeration of the package names; a type that starts with
\* the main package's name and '.' resolves exactly when the reference itself
\* is in the main oracle; any other dotted type resolves exactly when
\* mainPackage + '.' + reference is in the main oracle
C23_DottedByPrefix ==
    /\ Range(packageNames) \in {{}, ImportedPackages}
    /\ Succeeded => \A f \in DottedFields : ResolvesDotted(f.Type.name)
    /\ FailedIn("fields")
          => \A f \in DottedFields :
                verr.args = <<f.Type.name, f.Name>> => ~ResolvesDotted(f.Type.name)

\* C23 witness: a field type written with the main package's name in front is
\* accepted in a document that also uses an imported package
C23_Witness ==
    /\ Succeeded
    /\ \E f \in DottedFields : HasPrefix(f.Type.name, pf.PackageName \o dot)
    /\ \E f \in DottedFields : Matching(f.Type.name) # {}

\* a dotted type naming nothing of the imported package it starts with is reported
C23_ImportedUnknownReported ==
    /\ FailedIn("fields")
    /\ \E f \in DottedFields :
          /\ verr.args = <<f.Type.name, f.Name>>
          /\ Matching(f.Type.name) # {}

-----------------------------------------------------------------------------
(* Packages split across files *)

\* the imported files that declare package pkg
FilesOf(pkg) == {g \in ImportedFiles : g.PackageName = pkg}

\* package pkg is declared by several of the files verify has before it
IsSplit(pkg) ==
    Cardinality(FilesOf(pkg)) + (IF pkg = pf.PackageName THEN 1 ELSE 0) >= 2

\* the field type names, dotted with its qualified name or undotted with its
\* name, a top-level or nested declaration of an imported file of a split package
NamesSplitDeclaration(f) ==
    /\ IsNamed(f)
    /\ \E g \in ImportedFiles :
          /\ IsSplit(g.PackageName)
          /\ IF ContainsDot(f.Type.name) THEN f.Type.name \in DeclaredNames(g)
             ELSE /\ g.PackageName = pf.PackageName
                  /\ f.Type.name \in NamesOf(g.Messages, g.Enums)

\* the oracle of every package is the union of the names of the package's files
OraclesAreUnions ==
    \A pkg \in DOMAIN m : m[pkg].msgmap \cup m[pkg].enummap = OracleOf(pkg)

\* C24 as stated: once the main oracle is built the oracle of every package
\* holds the names of all the files of the package, and a field that names,
\* dotted or undotted, a declaration of any file of a split package is never
\* reported as undefined
C24_SplitPackages ==
    /\ "oracle" \in Range(ran) => OraclesAreUnions
    /\ FailedIn("fields")
          => \A f \in MessageFields :
                verr.args = <<f.Type.name, f.Name>> => ~NamesSplitDeclaration(f)

\* what holds of split packages: the oracles are the unions, and a dotted
\* reference to a declaration of any file of a split package is never reported
C24_DottedSeesUnion ==
    /\ "oracle" \in Range(ran) => OraclesAreUnions
    /\ FailedIn("fields")
          => \A f \in MessageFields :
                (verr.args = <<f.Type.name, f.Name>> /\ ContainsDot(f.Type.name))
                   => ~NamesSplitDeclaration(f)

\* a dotted reference into the second of two imported files of the main
\* document's own package is accepted
C24_DottedWitness ==
    /\ Succeeded
    /\ Len(pf.Dependencies) = 2
    /\ \E f \in MessageFields :
          /\ ContainsDot(f.Type.name)
          /\ NamesSplitDeclaration(f)
          /\ f.Type.name \in DeclaredNames(parse(provider.modules[pf.Dependencies[2]].content).pf)
          /\ HasPrefix(f.Type.name, pf.PackageName \o dot)

\* an undotted reference to a message of the second same-package import is reported
C24_UndottedRejected ==
    /\ FailedIn("fields")
    /\ \E f \in MessageFields :
          /\ verr.args = <<f.Type.name, f.Name>>
          /\ ~ContainsDot(f.Type.name)
          /\ NamesSplitDeclaration(f)

-----------------------------------------------------------------------------
(* reserved statements *)

\* this step reads the reserved statement tok inside a message
ReservedStep(tok) ==
    /\ pstate = "parsing"
    /\ CtxOf(stack) = msgCtx
    /\ ndecl' = ndecl + 1
    /\ \E st \in {parseStep(Current, tok)} :
          pf' = st.pf /\ stack' = st.stack /\ perr' = st.err

\* the ranges a list of ranges is to append: N gives Start = End = N, A to B
\* gives Start = A and End = B
RangesOf(ranges) ==
    [k \in 1..Len(ranges) |->
        ReservedRangeElement(ranges[k].start,
                             IF ranges[k].form = "single" THEN ranges[k].start ELSE ranges[k].end)]

\* the open message of the step has the ranges and names of tok appended, in
\* order; the End of a range written with max is left open
Appended(tok) ==
    LET before == stack[Len(stack)].obj
        after == stack'[Len(stack)].obj
        n == Len(before.ReservedRanges)
    IN /\ perr' = NoErr
       /\ Len(stack') = Len(stack)
       /\ after.ReservedNames = before.ReservedNames \o tok.names
       /\ Len(after.ReservedRanges) = n + Len(tok.ranges)
       /\ \A k \in 1..Len(tok.ranges) :
             /\ after.ReservedRanges[n + k].Start = tok.ranges[k].start
             /\ tok.ranges[k].form # "max"
                   => after.ReservedRanges[n + k] = RangesOf(tok.ranges)[k]

\* a list of the forms N, A to B and A to max, or a list of quoted names
WellFormed(tok) ==
    \/ tok.ranges # <<>> /\ \A k \in 1..Len(tok.ranges) : tok.ranges[k].form \in {"single", "to", "max"}
    \/ tok.ranges = <<>> /\ tok.names # <<>>

\* C25 as stated: a reserved statement in a message with a list of ranges N,
\* A to B or A to max, or with a list of quoted names, appends every range or
\* name to the message in order, and a malformed list makes the parse fail
C25_Reserved ==
    [][\A tok \in ReservedToks :
          ReservedStep(tok) => IF WellFormed(tok) THEN Appended(tok) ELSE perr' # NoErr]_vars

\* what holds of reserved: lists of integers and of ranges A to B, and lists of
\* quoted names, are appended in order; any other list, a range A to max
\* included, makes the parse fail
C25_ReservedIntegers ==
    [][\A tok \in ReservedToks :
          ReservedStep(tok)
             => IF WellFormed(tok) /\ \A k \in 1..Len(tok.ranges) : tok.ranges[k].form # "max"
                THEN Appended(tok) ELSE perr' # NoErr]_vars

\* a list of two ranges and a list of two names have been read into one message
C25_ListsAppended ==
    /\ pstate = "parsed"
    /\ \E msg \in AllMessages :
          /\ msg.ReservedRanges = <<ReservedRangeElement(5, 5), ReservedRangeElement(6, 9)>>
          /\ msg.ReservedNames = <<W("f"), W("g")>>

\* reserved 5, 7 to max; has failed with the error of strconv
C25_MaxRejected ==
    /\ pstate = "failed"
    /\ perr.text = "strconv.Atoi: parsing \"\": invalid syntax"
    /\ CtxOf(stack) = msgCtx
    /\ Len(stack[Len(stack)].obj.ReservedRanges) > 0

-----------------------------------------------------------------------------
(* option statements *)

OptionContexts == {fileCtx, msgCtx, oneOfCtx, enumCtx, serviceCtx, rpcCtx}

\* this step reads the option statement tok in a context that permits options
OptionStep(tok) ==
    /\ pstate = "parsing"
    /\ CtxOf(stack) \in OptionContexts
    /\ ndecl' = ndecl + 1
    /\ \E st \in {parseStep(Current, tok)} :
          pf' = st.pf /\ stack' = st.stack /\ perr' = st.err

\* the options of the record the open block stands for, the document at file level
EnclosingOptions(f, stk) == IF stk = <<>> THEN f.Options ELSE stk[Len(stk)].obj.Options

\* the step has appended the option of tok, as written, to the enclosing record
OptionAppended(tok) ==
    /\ perr' = NoErr
    /\ Len(stack') = Len(stack)
    /\ EnclosingOptions(pf', stack')
          = Append(EnclosingOptions(pf, stack), OptionElement(tok.name, tok.value, tok.paren))

\* C26 as stated: in file, message, oneof, enum, service and rpc context an
\* option statement with a plain or a parenthesized name and a quoted or bare
\* value parses and appends to the enclosing record an option with that name,
\* that value and IsParenthesized telling whether the name was in parentheses
C26_Options ==
    [][\A tok \in OptionToks : OptionStep(tok) => OptionAppended(tok)]_vars

\* what holds of options: with a plain name the option is appended with its
\* name, its value and IsParenthesized = false in each of the six contexts;
\* with a name in parentheses the statement fails at the ')' and nothing is
\* appended
C26_PlainOptions ==
    [][\A tok \in OptionToks :
          OptionStep(tok)
             => IF ~tok.paren THEN OptionAppended(tok)
                ELSE /\ perr' = throw("=", W(")"))
                     /\ EnclosingOptions(pf', stack') = EnclosingOptions(pf, stack)]_vars

\* a quoted value has been read as the option of an rpc
C26_PlainWitness ==
    /\ CtxOf(stack) = rpcCtx
    /\ perr = NoErr
    /\ \E o \in Range(stack[Len(stack)].obj.Options) :
          o.Value = "a b" /\ ~o.IsParenthesized

\* option (custom) = true; has failed inside a message
C26_ParenthesizedRejected ==
    /\ pstate = "failed"
    /\ CtxOf(stack) = msgCtx
    /\ perr = throw("=", W(")"))

-----------------------------------------------------------------------------
(* verify and the document *)

NoSamePackageImport == \A g \in ImportedFiles : g.PackageName # pf.PackageName

\* verify has returned from its second call on the document
ReturnedAgain == "again" \in Range(ran) /\ vpc = "done"

\* one imported package name followed by '.' starts another
NestedPackageNames ==
    \E a \in ImportedPackages, b \in ImportedPackages : a # b /\ HasPrefix(b, a \o dot)

\* C27 as stated: no step of verify changes the document unless an import
\* declares the main document's package name, and a second call of verify on
\* a document the first call accepted, with the same provider, accepts it
C27_DocumentKept ==
    /\ [][NoSamePackageImport => pf' = pf]_vars
    /\ [](ReturnedAgain => verr = NoErr)

\* what holds: without a same-package import no step of verify changes the
\* document, with one only the step that builds the main oracle does; and the
\* second call accepts the document unless an import declares the main
\* document's package or one imported package name starts another
C27_Frame ==
    /\ [][/\ NoSamePackageImport => pf' = pf
          /\ pf' # pf => vpc = "oracle"]_vars
    /\ []((ReturnedAgain /\ NoSamePackageImport /\ ~NestedPackageNames) => verr = NoErr)

\* the second call rejects the document the first call accepted: the merged
\* declarations of the same-package import are in it twice
C27_MergedTwice ==
    /\ ReturnedAgain
    /\ FailedIn("uniqueNames")
    /\ ~NoSamePackageImport

\* the second call rejects a document that the first call accepted and left unchanged
C27_RejectedUnchanged ==
    /\ ReturnedAgain
    /\ verr # NoErr
    /\ NoSamePackageImport

\* the second call accepts a document with a used import of another package
C27_AcceptedAgain ==
    /\ ReturnedAgain
    /\ verr = NoErr
    /\ NoSamePackageImport
    /\ Len(pf.Dependencies) > 0

-----------------------------------------------------------------------------
(* Contexts and the records they carry *)

\* C28: every open block's context carries a record of the type that goes
\* with its context type (a message for msgCtx, an enum for enumCtx, a service
\* for serviceCtx, a oneof, an extend block, an rpc), the file context is
\* never one of an open block, and no reader's type assertion on ctx.obj has
\* failed
C28_ContextsMatchRecords ==
    /\ perr # NoErr => perr.kind # "panic"
    /\ \A k \in 1..Len(stack) :
          /\ stack[k].ctxType # fileCtx
          /\ isA(stack[k].obj, stack[k].ctxType)

\* C28 witness: in a service opened inside a message, where service is let
\* through unchecked, an rpc has been read into the asserted service record
C28_Witness ==
    /\ Len(stack) = 2
    /\ stack[1].ctxType = msgCtx
    /\ stack[2].ctxType = serviceCtx
    /\ Len(stack[2].obj.RPCs) > 0
    /\ perr = NoErr

\* a oneof has been opened in a message and a field read into it
C28_OneOfWitness ==
    /\ CtxOf(stack) = oneOfCtx
    /\ Len(stack[Len(stack)].obj.Fields) > 0
    /\ stack[Len(stack) - 1].ctxType = msgCtx

-----------------------------------------------------------------------------
(* The order of the package names *)

\* the result of the three checks of verify that take the package names, run
\* on the document and the oracles of this state with the names in order pkgs
OutcomeWith(pkgs) ==
    LET fields == findFieldsToValidate(pf.Messages)
        perRPC(sv, rpc) ==
            <<validateRPCDataType(pf.PackageName, sv.Name, rpc.Name, rpc.RequestType,
                                  pf.Messages, m, pkgs),
              validateRPCDataType(pf.PackageName, sv.Name, rpc.Name, rpc.ResponseType,
                                  pf.Messages, m, pkgs)>>
        perService(sv) == Flatten([k \in 1..Len(sv.RPCs) |-> perRPC(sv, sv.RPCs[k])])
    IN FirstErr(<<areImportedPackagesUsed(pf, pkgs)>>
                \o [i \in 1..Len(fields) |->
                       validateFieldDataTypes(pf.PackageName, fields[i], pf.Messages,
                                              pf.Enums, m, pkgs)]
                \o Flatten([i \in 1..Len(pf.Services) |-> perService(pf.Services[i])]))

\* the three checks have run, or one of them has failed
NameChecksDone ==
    \/ "rpcs" \in Range(ran)
    \/ FailedIn("importsUsed")
    \/ FailedIn("fields")

\* C29 as stated: whether the checks that use the imported package names
\* succeed, and the error they return, is the same for every order in which
\* the names can be enumerated
C29_OrderIndependent ==
    NameChecksDone
       => \A o \in Orders(Range(packageNames)) : OutcomeWith(o) = OutcomeWith(packageNames)

\* verify has rejected a document, for an unused import, that it accepts with
\* the package names a and a.b enumerated in the other order
C29_VerdictDepends ==
    /\ FailedIn("importsUsed")
    /\ verr = OutcomeWith(packageNames)
    /\ \E o \in Orders(Range(packageNames)) : OutcomeWith(o) = NoErr
    /\ \E f \in MessageFields : f.Type.name = <<"a", ".", "b", ".", "B">>

\* verify has rejected a document with an error that names another package
\* when the names are enumerated in the other order
C29_ErrorDepends ==
    /\ Failed
    /\ "importsUsed" \in Range(ran)
    /\ verr = OutcomeWith(packageNames)
    /\ \E o \in Orders(Range(packageNames)) : OutcomeWith(o) \notin {NoErr, verr}

-----------------------------------------------------------------------------
(* Fields and enum constants on one line with what follows them *)

\* the lines on which something follows the ';' of the field or enum constant
FullLines == {line \in FieldLines \cup ConstLines : line[2] # <<>>}

\* this step has read a field or an enum constant with something after it on its line
LineStep == pstate = "parsing" /\ skipped' # <<>>

\* the step has the effect of reading tok and then the tokens of rest
ParsedWithRest(tok, rest) ==
    \E st \in {parseToks(Current, <<tok>> \o rest)} :
       pf' = st.pf /\ prefix' = st.prefix /\ stack' = st.stack /\ perr' = st.err

\* the step has the effect of reading tok alone
ParsedAlone(tok) ==
    \E st \in {parseStep(Current, tok)} :
       pf' = st.pf /\ prefix' = st.prefix /\ stack' = st.stack /\ perr' = st.err

\* C30 as stated: what follows the ';' of a field or of an enum constant on the
\* same line is still parsed: a '}' closes the enclosing block and a second
\* declaration is added
C30_RestOfLineParsed ==
    [][LineStep => \E line \in FullLines :
                      line[2] = skipped' /\ ParsedWithRest(line[1], line[2])]_vars

\* what holds: the field or constant itself is read and added, and whatever
\* follows its ';' on the line is passed over without effect
C30_RestOfLineSkipped ==
    [][LineStep => \E line \in FullLines :
                      /\ line[2] = skipped'
                      /\ ParsedAlone(line[1])
                      /\ perr' = NoErr
                      /\ ndecl' = ndecl + 1 + DeclsIn(line[2])]_vars

\* message M { int32 f = 1; } written on one line: the field is read, the '}'
\* was passed over and the message is still open
C30_BraceSwallowed ==
    /\ pstate = "parsing"
    /\ skipped = <<TokClose>>
    /\ Len(stack) = 1
    /\ CtxOf(stack) = msgCtx
    /\ Len(stack[1].obj.Fields) = 1
    /\ ndecl = 2

\* A = 0; B = 1; written on one line in an enum: the enum is closed and parsed
\* with the one constant A
C30_SecondDropped ==
    /\ pstate = "parsed"
    /\ \E en \in Range(pf.Enums) :
          /\ Len(en.EnumConstants) = 1
          /\ en.Options = <<>>
          /\ ndecl = 3
          /\ Len(pf.Enums) = 1
          /\ pf.Messages = <<>> /\ pf.Services = <<>> /\ pf.Options = <<>>
          /\ pf.PackageName = <<>> /\ pf.Syntax = "" /\ pf.Dependencies = <<>>
          /\ pf.PublicDependencies = <<>> /\ pf.ExtendDeclarations = <<>>

=============================================================================
